---- MODULE Spec2Model ----
(***************************************************************************)
(* Model of the receipt transform / validate pipeline (receipt.ts) and of  *)
(* its caller.                                                             *)
(*                                                                         *)
(* Conventions                                                             *)
(*  - A JavaScript value is a record tagged by its typeof-like kind "t":   *)
(*    undefined, null, number, string, boolean, array, object.             *)
(*  - A number n is held as the integer 1000*n ("milli"): 0.29 is 290,     *)
(*    a quantity of 0.5 is 500.  Money after round2 is a multiple of 10.   *)
(*  - A string is a sequence of one-character strings.                     *)
(***************************************************************************)
EXTENDS Integers, Sequences, FiniteSets, TLC

\* ------------------------------------------------------------------------
\* JavaScript values
\* ------------------------------------------------------------------------
Undef == [t |-> "undefined"]
Null == [t |-> "null"]
Num(m) == [t |-> "number", v |-> m]
Str(s) == [t |-> "string", v |-> s]
Bool(b) == [t |-> "boolean", v |-> b]
Arr(s) == [t |-> "array", v |-> s]
Obj(f) == [t |-> "object", v |-> f]
\* a number whose magnitude is beyond the Date range (8.64e15 ms)
BigNum == [t |-> "number", big |-> TRUE]
EmptyObj == [t |-> "object", v |-> <<>>]
\* a BigInt value n
BigInt(n) == [t |-> "bigint", v |-> n]

IsBig(x) == "big" \in DOMAIN x
IsNullish(x) == x.t \in {"undefined", "null"}
IsNum(x) == x.t = "number"
IsStr(x) == x.t = "string"

\* ToBoolean
Truthy(x) ==
  CASE x.t = "undefined" -> FALSE
    [] x.t = "null" -> FALSE
    [] x.t = "number" -> IsBig(x) \/ x.v # 0
    [] x.t = "string" -> Len(x.v) > 0
    [] x.t = "boolean" -> x.v
    [] OTHER -> TRUE

\* a || b
Or(a, b) == IF Truthy(a) THEN a ELSE b

\* o.k and o?.k on a non-nullish o (a primitive or an array has no such own
\* property); o?.k on a nullish o.  A plain o.k on a nullish o throws: the
\* callers test IsNullish first.
Get(o, k) == IF o.t = "object" /\ k \in DOMAIN o.v THEN o.v[k] ELSE Undef

Abs(n) == IF n < 0 THEN -n ELSE n
Min(a, b) == IF a < b THEN a ELSE b
Range(s) == {s[i] : i \in 1..Len(s)}

\* ------------------------------------------------------------------------
\* Strings
\* ------------------------------------------------------------------------
LowerLetters == <<"a","b","c","d","e","f","g","h","i","j","k","l","m",
                  "n","o","p","q","r","s","t","u","v","w","x","y","z">>
UpperLetters == <<"A","B","C","D","E","F","G","H","I","J","K","L","M",
                  "N","O","P","Q","R","S","T","U","V","W","X","Y","Z">>
DigitChars == <<"0","1","2","3","4","5","6","7","8","9">>

IsDigit(c) == c \in Range(DigitChars)
IsAlpha(c) == c \in Range(LowerLetters) \cup Range(UpperLetters)
IsSpace(c) == c \in {" ", "\t", "\n", "\r"}

UpperChar(c) ==
  IF c \in Range(LowerLetters)
  THEN UpperLetters[CHOOSE i \in 1..26 : LowerLetters[i] = c]
  ELSE c
\* String.prototype.toUpperCase
ToUpperCase(s) == [i \in 1..Len(s) |-> UpperChar(s[i])]

\* String.prototype.includes / RegExp.test of a literal
Includes(s, sub) ==
  \E i \in 0..(Len(s) - Len(sub)) : SubSeq(s, i + 1, i + Len(sub)) = sub

\* String.prototype.trim
RECURSIVE TrimLeft(_)
TrimLeft(s) == IF s # <<>> /\ IsSpace(Head(s)) THEN TrimLeft(Tail(s)) ELSE s
RECURSIVE TrimRight(_)
TrimRight(s) ==
  IF s # <<>> /\ IsSpace(s[Len(s)]) THEN TrimRight(SubSeq(s, 1, Len(s) - 1)) ELSE s
Trim(s) == TrimRight(TrimLeft(s))

\* String.prototype.split(sep) for a one-character separator
RECURSIVE Split(_, _)
Split(s, sep) ==
  IF \A i \in 1..Len(s) : s[i] # sep
  THEN <<s>>
  ELSE LET i == CHOOSE j \in 1..Len(s) : s[j] = sep /\ \A k \in 1..(j - 1) : s[k] # sep
       IN <<SubSeq(s, 1, i - 1)>> \o Split(SubSeq(s, i + 1, Len(s)), sep)

\* Array.prototype.join of strings
RECURSIVE JoinSeqs(_, _)
JoinSeqs(parts, sep) ==
  IF parts = <<>> THEN <<>>
  ELSE IF Len(parts) = 1 THEN parts[1]
  ELSE parts[1] \o sep \o JoinSeqs(Tail(parts), sep)

\* decimal digits of a natural number
RECURSIVE NatStr(_)
NatStr(n) == IF n < 10 THEN <<DigitChars[n + 1]>> ELSE NatStr(n \div 10) \o <<DigitChars[(n % 10) + 1]>>

\* Number.prototype.toString of the number m/1000
NumStr(m) ==
  LET a == Abs(m)
      ip == a \div 1000
      fp == a % 1000
      frac == IF fp = 0 THEN <<>>
              ELSE IF fp % 100 = 0 THEN <<".">> \o NatStr(fp \div 100)
              ELSE IF fp % 10 = 0 THEN <<".", DigitChars[(fp \div 100) + 1]>> \o NatStr((fp \div 10) % 10)
              ELSE <<".", DigitChars[(fp \div 100) + 1], DigitChars[((fp \div 10) % 10) + 1]>> \o NatStr(fp % 10)
  IN (IF m < 0 THEN <<"-">> ELSE <<>>) \o NatStr(ip) \o frac

\* ToString as applied by Array.prototype.join to one element
JoinStr(x) ==
  CASE x.t = "undefined" -> <<>>
    [] x.t = "null" -> <<>>
    [] x.t = "string" -> x.v
    [] x.t = "number" -> NumStr(x.v)
    [] x.t = "boolean" -> IF x.v THEN <<"t","r","u","e">> ELSE <<"f","a","l","s","e">>
    [] OTHER -> <<"[","o","b","j","e","c","t"," ","O","b","j","e","c","t","]">>

\* ------------------------------------------------------------------------
\* Numbers (IEEE-754 doubles, held in milli)
\* ------------------------------------------------------------------------
\* The decimal ties x.xx5 below 0.4 whose nearest double lies at or above
\* the tie, so that toFixed(2) rounds them up (0.125 is exact, 0.145 is
\* stored as 0.14499999999999999 and rounds down).
TieUpMilli == {5, 25, 35, 55, 65, 85, 95, 115, 125, 135, 165, 195, 225, 255,
               265, 275, 315, 325, 335, 375, 385, 395}

\* round2 = Number(n.toFixed(2)).  n is a decimal literal with at most three
\* decimals, a sum or difference of cent values, or a cent value times an
\* integer or times 0.5 (all of these are the double nearest to m/1000).
round2(m) ==
  LET a == Abs(m)
      q == a \div 10
      r == a % 10
      up == r > 5 \/ (r = 5 /\ a \in TieUpMilli)
      c == IF up THEN (q + 1) * 10 ELSE q * 10
  IN IF m < 0 THEN -c ELSE c

\* a * b for two numbers held in milli
Mul(a, b) == (a * b) \div 1000

\* The cent values c (0.00 .. 1.99) for which the doubles of (c+1)/100 and
\* c/100 differ by no more than the double 0.01.
OneCentWithin == {0, 1, 2, 5, 7, 8, 10, 11, 14, 17, 20, 23, 28, 34, 40, 46,
                  56, 68, 81, 93, 112, 137, 162, 187}

\* Math.abs(a - b) > 0.01 for two cent values
ExceedsTolerance(a, b) ==
  LET d == Abs(a - b)
  IN IF d > 10 THEN TRUE
     ELSE IF d < 10 THEN FALSE
     ELSE (Min(Abs(a), Abs(b)) \div 10) \notin OneCentWithin

\* Intl.NumberFormat rounds to the two minor digits of the currency, half
\* away from zero on the shortest decimal form of the number.
RoundHalfExpand2(m) ==
  LET a == Abs(m)
      c == IF a % 10 >= 5 THEN ((a \div 10) + 1) * 10 ELSE (a \div 10) * 10
  IN IF m < 0 THEN -c ELSE c

\* Intl.NumberFormat's IsWellFormedCurrencyCode(ToString(ccy))
ValidCurrency(ccy) == IsStr(ccy) /\ Len(ccy.v) = 3 /\ \A i \in 1..3 : IsAlpha(ccy.v[i])

\* fmtMoney: the rendered text is determined by the (case-normalised)
\* currency and the amount rounded to cents; it is held as that pair.
fmtMoney(amount, ccy) ==
  [t |-> "string", cur |-> ToUpperCase(ccy.v), amt |-> RoundHalfExpand2(amount)]

\* Number(x) for the coercions of total_discount; NaN is Undef
RECURSIVE DigitsVal(_)
DigitsVal(s) ==
  IF s = <<>> THEN 0
  ELSE 10 * DigitsVal(SubSeq(s, 1, Len(s) - 1))
       + ((CHOOSE i \in 1..10 : DigitChars[i] = s[Len(s)]) - 1)
AllDigits(s) == \A i \in 1..Len(s) : IsDigit(s[i])
\* StringToNumber for plain decimal literals with at most three decimals
StringToNumber(s0) ==
  LET s1 == Trim(s0)
      neg == s1 # <<>> /\ Head(s1) = "-"
      s == IF s1 # <<>> /\ Head(s1) \in {"-", "+"} THEN Tail(s1) ELSE s1
      parts == Split(s, ".")
      ip == parts[1]
      fp == IF Len(parts) = 2 THEN parts[2] ELSE <<>>
      ok == /\ Len(parts) <= 2
            /\ AllDigits(ip) /\ AllDigits(fp)
            /\ Len(ip) + Len(fp) > 0
            /\ Len(fp) <= 3
      scale == IF Len(fp) = 0 THEN 1000 ELSE IF Len(fp) = 1 THEN 100 ELSE IF Len(fp) = 2 THEN 10 ELSE 1
      mag == DigitsVal(ip) * 1000 + DigitsVal(fp) * scale
  IN IF s1 = <<>> THEN Num(0)
     ELSE IF ok THEN Num(IF neg THEN -mag ELSE mag)
     ELSE Undef
ToNumber(x) ==
  CASE x.t = "number" -> x
    [] x.t = "string" -> StringToNumber(x.v)
    [] x.t = "boolean" -> Num(IF x.v THEN 1000 ELSE 0)
    [] x.t = "null" -> Num(0)
    [] OTHER -> Undef

\* ------------------------------------------------------------------------
\* Field extractors of transformReceipt
\* ------------------------------------------------------------------------
SCHEMA_VERSION == <<"1", ".", "0", ".", "0">>

sSKU == <<"S","K","U">>
sAPN == <<"A","P","N">>
sColour == <<"C","o","l","o","u","r">>
sSize == <<"S","i","z","e">>
sAUD == <<"A","U","D">>
sUnknownItem == <<"U","n","k","n","o","w","n"," ","I","t","e","m">>

\* p?.title
PropTitle(p) == IF IsNullish(p) THEN Undef ELSE Get(p, "title")

\* The propMap built by itemProps.forEach: the value last stored under key,
\* or undefined.  A title "Key: Value" is split at its colons.
PropSets(p, key) ==
  LET title == PropTitle(p)
      parts == Split(title.v, ":")
  IN /\ Truthy(title)
     /\ Len(parts[1]) > 0 /\ Len(parts) > 1
     /\ Trim(parts[1]) = key
PropStored(p) == Trim(JoinSeqs(Tail(Split(PropTitle(p).v, ":")), <<":">>))
PropValue(itemProps, key) ==
  LET hits == {i \in 1..Len(itemProps) : PropSets(itemProps[i], key)}
  IN IF hits = {} THEN Undef
     ELSE Str(PropStored(itemProps[CHOOSE i \in hits : \A j \in hits : j <= i]))

\* the currency guess with the payload-level code ahead of the item-level code
currencyGuess_payloadFirst(pricing, api) ==
  Or(Or(Get(api, "currency_code"), Get(pricing, "currency_code")), Str(sAUD))
\* pricing.currency_code || apiReceiptData?.currency_code || 'AUD'
currencyGuess(pricing, api) ==
  Or(Or(Get(pricing, "currency_code"), Get(api, "currency_code")), Str(sAUD))

\* the callback with the line total taken from the price before rounding
TransformItem_unroundedLineTotal(entry, api) ==
  LET product == Or(Get(entry, "product"), EmptyObj)
      pricing == Or(Get(product, "pricing"), EmptyObj)
      qp == Get(product, "quantity_purchased")
      rawQty == IF IsNum(qp) THEN qp ELSE Undef
      quantity == IF Truthy(rawQty) /\ rawQty.v > 0 THEN rawQty.v ELSE 1000
      price == Get(pricing, "price")
      unitPriceRaw == IF IsNum(price) THEN price.v ELSE 0
      unitPrice == round2(unitPriceRaw)
      ccy == currencyGuess(pricing, api)
      lineTotal == round2(Mul(unitPriceRaw, quantity))
      itemProps == Or(Get(product, "item_properties"), Arr(<<>>)).v
  IN [ name |-> Or(Or(Get(product, "name"), Get(product, "title")), Str(sUnknownItem)),
       sku |-> PropValue(itemProps, sSKU),
       apn |-> PropValue(itemProps, sAPN),
       colour |-> PropValue(itemProps, sColour),
       size |-> PropValue(itemProps, sSize),
       unitPrice |-> unitPrice,
       unitPriceFormatted |-> fmtMoney(unitPrice, ccy),
       quantity |-> quantity,
       lineTotal |-> lineTotal,
       lineTotalFormatted |-> fmtMoney(lineTotal, ccy),
       discount |-> IF IsNum(Get(pricing, "discount")) THEN Get(pricing, "discount") ELSE Undef,
       tax |-> IF IsNum(Get(pricing, "tax")) THEN Get(pricing, "tax") ELSE Undef,
       currency |-> ccy ]

\* the callback of rawItems.map
TransformItem(entry, api) ==
  LET product == Or(Get(entry, "product"), EmptyObj)
      pricing == Or(Get(product, "pricing"), EmptyObj)
      qp == Get(product, "quantity_purchased")
      rawQty == IF IsNum(qp) THEN qp ELSE Undef
      quantity == IF Truthy(rawQty) /\ rawQty.v > 0 THEN rawQty.v ELSE 1000
      price == Get(pricing, "price")
      unitPriceRaw == IF IsNum(price) THEN price.v ELSE 0
      unitPrice == round2(unitPriceRaw)
      ccy == currencyGuess(pricing, api)
      lineTotal == round2(Mul(unitPrice, quantity))
      itemProps == Or(Get(product, "item_properties"), Arr(<<>>)).v
  IN [ name |-> Or(Or(Get(product, "name"), Get(product, "title")), Str(sUnknownItem)),
       sku |-> PropValue(itemProps, sSKU),
       apn |-> PropValue(itemProps, sAPN),
       colour |-> PropValue(itemProps, sColour),
       size |-> PropValue(itemProps, sSize),
       unitPrice |-> unitPrice,
       unitPriceFormatted |-> fmtMoney(unitPrice, ccy),
       quantity |-> quantity,
       lineTotal |-> lineTotal,
       lineTotalFormatted |-> fmtMoney(lineTotal, ccy),
       discount |-> IF IsNum(Get(pricing, "discount")) THEN Get(pricing, "discount") ELSE Undef,
       tax |-> IF IsNum(Get(pricing, "tax")) THEN Get(pricing, "tax") ELSE Undef,
       currency |-> ccy ]

\* the exceptions the callback of rawItems.map raises: entry.product on a
\* null entry, Intl.NumberFormat on a malformed currency code, forEach on
\* a non-array item_properties, split on a non-string title
ItemThrows(entry, api) ==
  \/ IsNullish(entry)
  \/ LET product == Or(Get(entry, "product"), EmptyObj)
         pricing == Or(Get(product, "pricing"), EmptyObj)
         itemProps == Or(Get(product, "item_properties"), Arr(<<>>))
     IN \/ ~ValidCurrency(currencyGuess(pricing, api))
        \/ itemProps.t # "array"
        \/ \E i \in 1..Len(itemProps.v) :
              LET title == PropTitle(itemProps.v[i])
              IN Truthy(title) /\ ~IsStr(title)

\* Array.isArray(apiReceiptData?.basket_items) ? ... : []
rawItems(api) ==
  IF Get(api, "basket_items").t = "array" THEN Get(api, "basket_items").v ELSE <<>>

\* ------------------------------------------------------------------------
\* Aggregation engine
\* ------------------------------------------------------------------------
\* [name, sku, apn, colour, size, unitPrice, currency].join('|')
AggKey(it) ==
  JoinSeqs(<<JoinStr(it.name), JoinStr(it.sku), JoinStr(it.apn), JoinStr(it.colour),
             JoinStr(it.size), NumStr(it.unitPrice), JoinStr(it.currency)>>, <<"|">>)

\* the loop body with the merge adding the quantity only
AggStep_quantityOnly(acc, it) ==
  LET key == AggKey(it)
      hit == {i \in 1..Len(acc) : acc[i].key = key}
  IN IF hit = {}
     THEN Append(acc, [key |-> key, item |-> it])
     ELSE LET i == CHOOSE j \in hit : TRUE
              existing == acc[i].item
          IN [acc EXCEPT ![i].item =
                [existing EXCEPT !.quantity = existing.quantity + it.quantity]]
\* the loop body with the merge spreading the later item over the entry
AggStep_laterItemWins(acc, it) ==
  LET key == AggKey(it)
      hit == {i \in 1..Len(acc) : acc[i].key = key}
  IN IF hit = {}
     THEN Append(acc, [key |-> key, item |-> it])
     ELSE LET i == CHOOSE j \in hit : TRUE
              existing == acc[i].item
              lt == round2(existing.lineTotal + it.lineTotal)
          IN [acc EXCEPT ![i].item =
                [it EXCEPT !.quantity = existing.quantity + it.quantity,
                           !.lineTotal = lt,
                           !.lineTotalFormatted = fmtMoney(lt, it.currency)]]
\* one iteration of the loop over items: aggregatedMap is held as the
\* sequence of its entries in insertion order
AggStep(acc, it) ==
  LET key == AggKey(it)
      hit == {i \in 1..Len(acc) : acc[i].key = key}
  IN IF hit = {}
     THEN Append(acc, [key |-> key, item |-> it])
     ELSE LET i == CHOOSE j \in hit : TRUE
              existing == acc[i].item
              lt == round2(existing.lineTotal + it.lineTotal)
          IN [acc EXCEPT ![i].item =
                [existing EXCEPT !.quantity = existing.quantity + it.quantity,
                                 !.lineTotal = lt,
                                 !.lineTotalFormatted = fmtMoney(lt, it.currency)]]

RECURSIVE AggFold(_, _)
AggFold(acc, items) ==
  IF items = <<>> THEN acc ELSE AggFold(AggStep(acc, Head(items)), Tail(items))

\* Array.from(aggregatedMap.values())
Aggregate(items) ==
  LET m == AggFold(<<>>, items) IN [i \in 1..Len(m) |-> m[i].item]

\* the items with aggregatedMap.set(key, it) storing the item itself: the
\* first item of each key is the entry the later merges update
itemsAfterAggregation_sharedEntries(items) ==
  [i \in 1..Len(items) |->
     IF \E k \in 1..(i - 1) : AggKey(items[k]) = AggKey(items[i])
     THEN items[i]
     ELSE LET j == CHOOSE j \in 1..Len(Aggregate(items)) :
                     AggKey(Aggregate(items)[j]) = AggKey(items[i])
          IN Aggregate(items)[j]]
\* the items array once the aggregation loop has run: the Map holds
\* { ...it } copies, so the merges update the copies only
itemsAfterAggregation(items) == items

\* ------------------------------------------------------------------------
\* Payments
\* ------------------------------------------------------------------------
sVISA == <<"V","I","S","A">>
sMASTERCARD == <<"M","A","S","T","E","R","C","A","R","D">>
sMC == <<"M","C">>
sAMEX == <<"A","M","E","X">>
sAMERICAN_EXPRESS == <<"A","M","E","R","I","C","A","N"," ","E","X","P","R","E","S","S">>
sAPPLE_PAY == <<"A","P","P","L","E"," ","P","A","Y">>
sGOOGLE_PAY == <<"G","O","O","G","L","E"," ","P","A","Y">>
sG_PAY == <<"G"," ","P","A","Y">>

\* normalizeMethod with the AMEX test ahead of the MASTERCARD test
normalizeMethod_amexFirst(s) ==
  LET x == ToUpperCase(Or(s, Str(<<>>)).v)
  IN IF Includes(x, sVISA) THEN Str(sVISA)
     ELSE IF Includes(x, sAMEX) \/ Includes(x, sAMERICAN_EXPRESS) THEN Str(sAMEX)
     ELSE IF Includes(x, sMASTERCARD) \/ Includes(x, sMC) THEN Str(sMASTERCARD)
     ELSE IF Includes(x, sAPPLE_PAY) THEN Str(<<"A","P","P","L","E","_","P","A","Y">>)
     ELSE IF Includes(x, sGOOGLE_PAY) \/ Includes(x, sG_PAY)
          THEN Str(<<"G","O","O","G","L","E","_","P","A","Y">>)
     ELSE IF x # <<>> THEN Str(x) ELSE Undef
\* normalizeMethod; s is undefined or a string (anything else makes
\* toUpperCase throw, see PaymentThrows)
normalizeMethod(s) ==
  LET x == ToUpperCase(Or(s, Str(<<>>)).v)
  IN IF Includes(x, sVISA) THEN Str(sVISA)
     ELSE IF Includes(x, sMASTERCARD) \/ Includes(x, sMC) THEN Str(sMASTERCARD)
     ELSE IF Includes(x, sAMEX) \/ Includes(x, sAMERICAN_EXPRESS) THEN Str(sAMEX)
     ELSE IF Includes(x, sAPPLE_PAY) THEN Str(<<"A","P","P","L","E","_","P","A","Y">>)
     ELSE IF Includes(x, sGOOGLE_PAY) \/ Includes(x, sG_PAY)
          THEN Str(<<"G","O","O","G","L","E","_","P","A","Y">>)
     ELSE IF x # <<>> THEN Str(x) ELSE Undef

\* rawName.match(/\*+(\d{2,4})/): the positions at which a digit group
\* directly follows an asterisk
DigitGroupStarts(s) ==
  {k \in 2..(Len(s) - 1) : s[k - 1] = "*" /\ IsDigit(s[k]) /\ IsDigit(s[k + 1])}
\* the captured group of the leftmost match: greedily up to four digits
DigitsCaptured(s) ==
  LET k == CHOOSE i \in DigitGroupStarts(s) : \A j \in DigitGroupStarts(s) : i <= j
      n == CHOOSE m \in 2..4 :
             /\ k + m - 1 <= Len(s)
             /\ \A i \in k..(k + m - 1) : IsDigit(s[i])
             /\ (m = 4 \/ k + m > Len(s) \/ ~IsDigit(s[k + m]))
  IN SubSeq(s, k, k + n - 1)
maskedCardOf(rawName) ==
  IF DigitGroupStarts(rawName) = {} THEN Undef
  ELSE Str(<<"*","*","*","*"," ","*">> \o DigitsCaptured(rawName))

\* rawName.match(/^([A-Za-z ]+?)(?:\s*\(|$)/): the lengths of the prefixes
\* of letters and spaces that are followed by optional white space and "("
\* or by the end of the string
MethodPrefixes(s) ==
  {n \in 1..Len(s) :
     /\ \A i \in 1..n : IsAlpha(s[i]) \/ s[i] = " "
     /\ \/ n = Len(s)
        \/ \E j \in (n + 1)..Len(s) : s[j] = "(" /\ \A i \in (n + 1)..(j - 1) : IsSpace(s[i])}
\* methodMatch ? methodMatch[1].trim() : undefined  (the lazy group takes
\* the shortest such prefix)
MethodFromName(s) ==
  IF MethodPrefixes(s) = {} THEN Undef
  ELSE Str(Trim(SubSeq(s, 1, CHOOSE n \in MethodPrefixes(s) : \A m \in MethodPrefixes(s) : n <= m)))

\* the callback of payments.map
TransformPayment(p, api) ==
  LET amountNum == round2(IF IsNum(Get(p, "amount")) THEN Get(p, "amount").v ELSE 0)
      rawName == Or(Get(p, "name"), Str(<<>>))
      methodGuess == Or(Get(p, "payment_method_type"), MethodFromName(rawName.v))
  IN [ method |-> normalizeMethod(methodGuess),
       maskedCard |-> maskedCardOf(rawName.v),
       amount |-> amountNum,
       amountFormatted |-> fmtMoney(amountNum, Or(Get(api, "currency_code"), Str(sAUD))),
       rawName |-> rawName,
       type |-> Or(Get(p, "payment_type"), Get(p, "payment_method_type")) ]

\* exceptions of the payments callback: p.amount on a null entry, match on
\* a non-string name, toUpperCase on a non-string payment_method_type,
\* Intl.NumberFormat on a malformed payload currency code
PaymentThrows(p, api) ==
  \/ IsNullish(p)
  \/ ~IsStr(Or(Get(p, "name"), Str(<<>>)))
  \/ (Truthy(Get(p, "payment_method_type")) /\ ~IsStr(Get(p, "payment_method_type")))
  \/ ~ValidCurrency(Or(Get(api, "currency_code"), Str(sAUD)))

\* Array.from(new Set(paymentDetails.map(p => p.method).filter(Boolean)))
RECURSIVE DistinctMethods(_, _)
DistinctMethods(acc, ps) ==
  IF ps = <<>> THEN acc
  ELSE LET m == Head(ps).method
       IN DistinctMethods(IF Truthy(m) /\ m \notin Range(acc) THEN Append(acc, m) ELSE acc,
                          Tail(ps))

\* ------------------------------------------------------------------------
\* Taxes
\* ------------------------------------------------------------------------
\* the callback of tax_details.map (amountFormatted is the placeholder
\* amountNum.toFixed(2), replaced when the receipt is assembled)
TransformTax(tl) ==
  LET amt == Get(tl, "amount")
      nested == IF IsNullish(amt) THEN Undef ELSE Get(amt, "price")
      amountNum == IF IsNum(nested) THEN nested.v ELSE IF IsNum(amt) THEN amt.v ELSE 0
  IN [ title |-> Get(tl, "title"),
       type |-> Or(Get(tl, "tax_type"), Get(amt, "tax_type")),
       amount |-> amountNum ]
\* t.title on a null entry
TaxThrows(tl) == IsNullish(tl)

\* (apiReceiptData?.X || []).map: the list, and whether .map is missing
ListOf(api, k) == Or(Get(api, k), Arr(<<>>))
ListThrows(api, k) == ListOf(api, k).t # "array"

RECURSIVE SumOf(_, _)
SumOf(s, f) == IF s = <<>> THEN 0 ELSE Head(s)[f] + SumOf(Tail(s), f)

\* ------------------------------------------------------------------------
\* Timestamps, address, returns, loyalty, payment slip
\* ------------------------------------------------------------------------
\* new Date(s) of a string is a valid date for the UTC form
\* "YYYY-MM-DDTHH:MM:SSZ" (the payloads considered carry such a string, a
\* string that is no date, or nothing)
IsIsoUtc(s) ==
  /\ Len(s) = 20
  /\ \A i \in {1, 2, 3, 4, 6, 7, 9, 10, 12, 13, 15, 16, 18, 19} : IsDigit(s[i])
  /\ s[5] = "-" /\ s[8] = "-" /\ s[11] = "T" /\ s[14] = ":" /\ s[17] = ":" /\ s[20] = "Z"
DateValid(x) == IsStr(x) /\ IsIsoUtc(x.v)

\* d.toISOString().slice(a, b) of the date of an epoch: held as the epoch
\* and the slice taken
EpochSlice(epoch, part) == [t |-> "string", ofEpoch |-> epoch.v, slice |-> part]

issuedAtEpochOf(api) == IF IsNum(Get(api, "issued_at")) THEN Get(api, "issued_at") ELSE Undef
issuedDateOf(api) ==
  LET iso == Get(api, "issued_at_iso")
      epoch == issuedAtEpochOf(api)
  IN IF Truthy(iso) THEN (IF DateValid(iso) THEN Str(SubSeq(iso.v, 1, 10)) ELSE Undef)
     ELSE IF Truthy(epoch) THEN EpochSlice(epoch, "date") ELSE Undef
issuedTimeOf(api) ==
  LET iso == Get(api, "issued_at_iso")
      epoch == issuedAtEpochOf(api)
  IN IF Truthy(iso) THEN (IF DateValid(iso) THEN Str(SubSeq(iso.v, 12, 16)) ELSE Undef)
     ELSE IF Truthy(epoch) THEN EpochSlice(epoch, "time") ELSE Undef
\* new Date(issuedAtEpoch * 1000).toISOString() raises a RangeError for a
\* time value beyond the Date range
TimestampThrows(api) ==
  /\ ~Truthy(Get(api, "issued_at_iso"))
  /\ Truthy(issuedAtEpochOf(api))
  /\ IsBig(issuedAtEpochOf(api))

\* Object.keys(x).length
KeyCount(x) ==
  CASE x.t = "object" -> Cardinality(DOMAIN x.v)
    [] x.t = "array" -> Len(x.v)
    [] x.t = "string" -> Len(x.v)
    [] OTHER -> 0

RECURSIVE FilterTruthy(_)
FilterTruthy(s) ==
  IF s = <<>> THEN <<>>
  ELSE (IF Truthy(Head(s)) THEN <<Head(s)>> ELSE <<>>) \o FilterTruthy(Tail(s))

addressOf(api) ==
  LET addrSrc == Or(Get(Get(api, "merchant_detail"), "address"), EmptyObj)
      parts == FilterTruthy(<<Get(addrSrc, "street"), Get(addrSrc, "street_2"),
                              Get(addrSrc, "suburb"), Get(addrSrc, "state"),
                              Get(addrSrc, "postcode")>>)
  IN IF KeyCount(addrSrc) = 0 THEN Undef
     ELSE [ t |-> "object",
            street |-> Or(Get(addrSrc, "street"), Undef),
            street2 |-> Or(Get(addrSrc, "street_2"), Undef),
            suburb |-> Or(Get(addrSrc, "suburb"), Undef),
            state |-> Or(Get(addrSrc, "state"), Undef),
            postcode |-> Or(Get(addrSrc, "postcode"), Undef),
            countryCode |-> Or(Get(addrSrc, "country_code"), Undef),
            full |-> Str(JoinSeqs([i \in 1..Len(parts) |-> JoinStr(parts[i])], <<",", " ">>)) ]

returnsPolicyOf(api) ==
  LET ret == Get(api, "returns")
  IN IF ~Truthy(ret) THEN Undef
     ELSE [ t |-> "object",
            barcode |-> Or(Get(ret, "return_barcode"), Undef),
            periodDays |-> Or(Get(ret, "return_period"), Undef),
            policyText |-> Or(Get(ret, "return_policy_text"), Undef) ]

sLOYALTY_ID == <<"L","O","Y","A","L","T","Y"," ","I","D",":">>
\* l.description.match(/Loyalty ID:\s*(.*)$/i): the places where the label
\* stands and no line break follows the white space after it
LoyaltyLabelAt(d) ==
  {i \in 1..(Len(d) - 10) :
     /\ ToUpperCase(SubSeq(d, i, i + 10)) = sLOYALTY_ID
     /\ \A j \in 1..Len(TrimLeft(SubSeq(d, i + 11, Len(d)))) :
           TrimLeft(SubSeq(d, i + 11, Len(d)))[j] \notin {"\n", "\r"}}
TransformLoyalty(l) ==
  LET d == Get(l, "description")
      hits == IF IsStr(d) THEN LoyaltyLabelAt(d.v) ELSE {}
      first == CHOOSE i \in hits : \A j \in hits : i <= j
  IN [ program |-> Get(l, "title"),
       maskedId |-> IF hits = {} THEN Undef ELSE Str(Trim(SubSeq(d.v, first + 11, Len(d.v)))) ]
\* l.description on a null entry
LoyaltyThrows(l) == IsNullish(l)

RECURSIVE FilterLoyalty(_)
FilterLoyalty(s) ==
  IF s = <<>> THEN <<>>
  ELSE (IF Truthy(Head(s).program) \/ Truthy(Head(s).maskedId) THEN <<Head(s)>> ELSE <<>>)
       \o FilterLoyalty(Tail(s))

\* raw.split(/\r?\n/).map(l => l.trim()).filter(Boolean)
SlipLines(raw) ==
  LET ls == Split(raw, "\n")
      trimmed == [i \in 1..Len(ls) |-> Trim(ls[i])]
  IN SelectSeq(trimmed, LAMBDA l : l # <<>>)
\* grab(/^LABEL:\s*(.+)$/i)
grab(lines, label) ==
  LET n == Len(label) + 1
      hits == {i \in 1..Len(lines) :
                 /\ Len(lines[i]) > n
                 /\ ToUpperCase(SubSeq(lines[i], 1, n)) = label \o <<":">>}
      first == CHOOSE i \in hits : \A j \in hits : i <= j
  IN IF hits = {} THEN Undef
     ELSE Str(Trim(SubSeq(lines[first], n + 1, Len(lines[first]))))
parseRawPaymentMeta(raw) ==
  IF ~Truthy(raw) THEN Undef
  ELSE LET lines == SlipLines(raw.v)
       IN [ t |-> "object",
            rawText |-> raw,
            merchantId |-> grab(lines, <<"M","E","R","C","H","A","N","T"," ","I","D">>),
            terminalId |-> grab(lines, <<"T","E","R","M","I","N","A","L"," ","I","D">>),
            stan |-> grab(lines, <<"S","T","A","N">>),
            rrn |-> grab(lines, <<"R","R","N">>),
            authCode |-> grab(lines, <<"A","U","T","H">>),
            accountType |-> grab(lines, <<"A","C","C","T"," ","T","Y","P","E">>),
            transactionType |-> grab(lines, <<"T","R","A","N","S"," ","T","Y","P","E">>) ]
\* raw.split on a truthy value that is no string
SlipThrows(raw) == Truthy(raw) /\ ~IsStr(raw)

\* whether x holds a BigInt, which JSON.stringify refuses with a TypeError
RECURSIVE HasBigInt(_)
HasBigInt(x) ==
  \/ x.t = "bigint"
  \/ x.t \in {"array", "object"} /\ \E k \in DOMAIN x.v : HasBigInt(x.v[k])

\* sha256Object returning a digest whatever happens inside the try block
sha256Object_alwaysDigest(obj) == [t |-> "string", sha256 |-> obj]
\* sha256Object: the digest is held as the value digested; JSON.stringify
\* throws on a BigInt and yields undefined for undefined, on which h.update
\* throws; the catch returns undefined
sha256Object(obj) ==
  IF obj.t = "undefined" \/ HasBigInt(obj) THEN Undef ELSE [t |-> "string", sha256 |-> obj]

\* ------------------------------------------------------------------------
\* Receipt assembler
\* ------------------------------------------------------------------------
\* the discount total taken only from a total_discount of type number
discountTotalOf_numbersOnly(api) ==
  IF IsNum(Get(api, "total_discount")) THEN Get(api, "total_discount") ELSE Null
\* Number(discountAny) when finite, else null
discountTotalOf(api) ==
  LET discountAny == Get(api, "total_discount")
  IN IF IsNullish(discountAny) THEN Null
     ELSE IF IsNum(ToNumber(discountAny)) THEN ToNumber(discountAny) ELSE Null

itemsOf(api) == [i \in 1..Len(rawItems(api)) |-> TransformItem(rawItems(api)[i], api)]
paymentsOf(api) ==
  [i \in 1..Len(ListOf(api, "payments").v) |-> TransformPayment(ListOf(api, "payments").v[i], api)]
taxLinesOf(api) ==
  [i \in 1..Len(ListOf(api, "tax_details").v) |-> TransformTax(ListOf(api, "tax_details").v[i])]
loyaltyOf(api) ==
  FilterLoyalty([i \in 1..Len(ListOf(api, "loyalty").v) |-> TransformLoyalty(ListOf(api, "loyalty").v[i])])

\* apiReceiptData?.currency_code || items[0]?.currency || 'AUD'
currencyOf(api, items) ==
  Or(Or(Get(api, "currency_code"), IF items = <<>> THEN Undef ELSE items[1].currency), Str(sAUD))

\* the subtotal defaulted to the total when there is no tax total
subtotalVal_defaultsToTotal(totalVal, taxTotal) ==
  IF ~IsNullish(taxTotal) THEN Num(round2(totalVal - taxTotal.v)) ELSE Num(totalVal)
\* (taxTotal != null) ? round2(totalVal - taxTotal) : undefined
subtotalVal(totalVal, taxTotal) ==
  IF ~IsNullish(taxTotal) THEN Num(round2(totalVal - taxTotal.v)) ELSE Undef

\* the meta block with the hash taken over the payload and the time of
\* the call
metaOf_hashOfStamped(api, schemaVersion, now) ==
  [ schemaVersion |-> Or(schemaVersion, Str(SCHEMA_VERSION)),
    source |-> "slyp",
    fetchedAtISO |-> now,
    rawHash |-> sha256Object([t |-> "object", v |-> [payload |-> api, fetchedAt |-> Num(now)]]) ]
\* meta: { schemaVersion, source, fetchedAtISO: new Date().toISOString(),
\* rawHash }, built at wall-clock time now
metaOf(api, schemaVersion, now) ==
  [ schemaVersion |-> Or(schemaVersion, Str(SCHEMA_VERSION)),
    source |-> "slyp",
    fetchedAtISO |-> now,
    rawHash |-> sha256Object(api) ]

\* transformReceipt(apiReceiptData, opts) called at wall-clock time now,
\* when it does not throw
transformReceipt(api, schemaVersion, now) ==
  LET items == itemsOf(api)
      aggregatedItems == Aggregate(items)
      taxLines == taxLinesOf(api)
      paymentDetails == paymentsOf(api)
      currency == currencyOf(api, items)
      taxTotal == IF IsNum(Get(api, "total_tax")) THEN Num(round2(Get(api, "total_tax").v)) ELSE Undef
      totalVal == round2(IF IsNum(Get(api, "total_price")) THEN Get(api, "total_price").v ELSE 0)
      subtotal == subtotalVal(totalVal, taxTotal)
      totalPaid == round2(SumOf(paymentDetails, "amount"))
      loyaltyPrograms == loyaltyOf(api)
      ond == Get(api, "order_number_detail")
  IN [ meta |-> metaOf(api, schemaVersion, now),
       identities |-> [ externalReceiptId |-> Get(api, "external_id"),
                        orderNumber |-> Or(Get(ond, "value"), Get(ond, "order_number")),
                        receiptType |-> Get(api, "receipt_type"),
                        isTaxInvoice |-> Truthy(Get(api, "is_tax_invoice")) ],
       timestamps |-> [ issuedAtEpoch |-> issuedAtEpochOf(api),
                        issuedAtISO |-> Get(api, "issued_at_iso"),
                        issuedDate |-> issuedDateOf(api),
                        issuedTime |-> issuedTimeOf(api),
                        timezone |-> Or(Get(Get(api, "merchant_detail"), "timezone"),
                                        Get(api, "issued_at_timezone")) ],
       merchant |-> [ merchantName |-> Or(Get(Get(api, "root_merchant"), "trading_name"),
                                          Get(Get(api, "issuing_merchant"), "trading_name")),
                      storeName |-> Or(Get(Get(api, "store"), "name"),
                                       Get(Get(api, "merchant_detail"), "name")),
                      abn |-> Get(Get(api, "merchant_detail"), "abn"),
                      phone |-> Get(Get(api, "merchant_detail"), "phone_number"),
                      address |-> addressOf(api) ],
       totals |-> [ currency |-> currency,
                    total |-> totalVal,
                    totalFormatted |-> fmtMoney(totalVal, currency),
                    subtotal |-> subtotal,
                    subtotalFormatted |-> IF ~IsNullish(subtotal)
                                          THEN fmtMoney(subtotal.v, currency) ELSE Undef,
                    taxTotal |-> taxTotal,
                    taxTotalFormatted |-> IF ~IsNullish(taxTotal)
                                          THEN fmtMoney(taxTotal.v, currency) ELSE Undef,
                    discountTotal |-> discountTotalOf(api),
                    itemCount |-> IF IsNum(Get(api, "item_count")) THEN Get(api, "item_count")
                                  ELSE Num(1000 * Len(items)),
                    computedItemQuantity |-> SumOf(items, "quantity"),
                    taxes |-> [i \in 1..Len(taxLines) |->
                                 [ title |-> taxLines[i].title,
                                   type |-> taxLines[i].type,
                                   amount |-> taxLines[i].amount,
                                   amountFormatted |-> fmtMoney(taxLines[i].amount, currency) ]] ],
       items |-> itemsAfterAggregation(items),
       aggregatedItems |-> aggregatedItems,
       payments |-> paymentDetails,
       paymentSummary |-> [ totalPaid |-> totalPaid,
                            totalPaidFormatted |-> fmtMoney(totalPaid, currency),
                            methods |-> DistinctMethods(<<>>, paymentDetails) ],
       paymentCardMeta |-> parseRawPaymentMeta(Get(api, "raw_payment_data")),
       returnsPolicy |-> returnsPolicyOf(api),
       loyaltyPrograms |-> IF loyaltyPrograms # <<>> THEN Arr(loyaltyPrograms) ELSE Undef,
       notes |-> Undef ]

\* whether transformReceipt(api) raises an exception instead of returning
transformThrows(api) ==
  \/ \E i \in 1..Len(rawItems(api)) : ItemThrows(rawItems(api)[i], api)
  \/ ListThrows(api, "tax_details")
  \/ \E i \in 1..Len(ListOf(api, "tax_details").v) : TaxThrows(ListOf(api, "tax_details").v[i])
  \/ ListThrows(api, "payments")
  \/ \E i \in 1..Len(ListOf(api, "payments").v) : PaymentThrows(ListOf(api, "payments").v[i], api)
  \/ TimestampThrows(api)
  \/ ListThrows(api, "loyalty")
  \/ \E i \in 1..Len(ListOf(api, "loyalty").v) : LoyaltyThrows(ListOf(api, "loyalty").v[i])
  \/ SlipThrows(Get(api, "raw_payment_data"))
  \/ ~ValidCurrency(Or(Get(api, "currency_code"), Str(sAUD)))

\* ------------------------------------------------------------------------
\* Schema validator (zReceipt.safeParse)
\* ------------------------------------------------------------------------
\* Number.prototype.toFixed(2)
ToFixed2(m) ==
  LET c == round2(m)
      a == Abs(c)
  IN (IF c < 0 THEN <<"-">> ELSE <<>>) \o NatStr(a \div 1000) \o <<".">>
     \o <<DigitChars[((a % 1000) \div 100) + 1], DigitChars[((a % 100) \div 10) + 1]>>

\* the type zod reports for a value
ReceivedType(x) ==
  CASE x.t = "undefined" -> <<"u","n","d","e","f","i","n","e","d">>
    [] x.t = "null" -> <<"n","u","l","l">>
    [] x.t = "number" -> <<"n","u","m","b","e","r">>
    [] x.t = "string" -> <<"s","t","r","i","n","g">>
    [] x.t = "boolean" -> <<"b","o","o","l","e","a","n">>
    [] x.t = "array" -> <<"a","r","r","a","y">>
    [] OTHER -> <<"o","b","j","e","c","t">>

\* `${i.path.join('.')} - ${i.message}`
SchemaIssue(path, message) == JoinSeqs(path, <<".">>) \o <<" ","-"," ">> \o message

\* z.string()
zString(path, x) ==
  IF IsStr(x) THEN <<>>
  ELSE IF x.t = "undefined" THEN <<SchemaIssue(path, <<"R","e","q","u","i","r","e","d">>)>>
  ELSE <<SchemaIssue(path, <<"E","x","p","e","c","t","e","d"," ","s","t","r","i","n","g",","," ","r","e","c","e","i","v","e","d"," ">> \o ReceivedType(x))>>
\* z.string().optional()
zStringOpt(path, x) == IF x.t = "undefined" THEN <<>> ELSE zString(path, x)
\* z.number().optional()
zNumberOpt(path, x) ==
  IF x.t \in {"undefined", "number"} THEN <<>>
  ELSE <<SchemaIssue(path, <<"E","x","p","e","c","t","e","d"," ","n","u","m","b","e","r",","," ","r","e","c","e","i","v","e","d"," ">> \o ReceivedType(x))>>
\* the .int() refinement of a number n
zInt(path, n) ==
  IF n % 1000 # 0 THEN <<SchemaIssue(path, <<"E","x","p","e","c","t","e","d"," ","i","n","t","e","g","e","r",","," ","r","e","c","e","i","v","e","d"," ","f","l","o","a","t">>)>> ELSE <<>>
\* the .positive() refinement
zPositive(path, n) ==
  IF n <= 0 THEN <<SchemaIssue(path, <<"N","u","m","b","e","r"," ","m","u","s","t"," ","b","e"," ","g","r","e","a","t","e","r"," ","t","h","a","n"," ","0">>)>> ELSE <<>>
\* the .nonnegative() refinement
zNonnegative(path, n) ==
  IF n < 0 THEN <<SchemaIssue(path, <<"N","u","m","b","e","r"," ","m","u","s","t"," ","b","e"," ","g","r","e","a","t","e","r"," ","t","h","a","n"," ","o","r"," ","e","q","u","a","l"," ","t","o"," ","0">>)>> ELSE <<>>

RECURSIVE Flatten(_)
Flatten(ss) == IF ss = <<>> THEN <<>> ELSE Head(ss) \o Flatten(Tail(ss))

zReceiptItem(path, it) ==
  zString(path \o <<<<"n","a","m","e">>>>, it.name)
  \o zStringOpt(path \o <<<<"s","k","u">>>>, it.sku)
  \o zStringOpt(path \o <<<<"a","p","n">>>>, it.apn)
  \o zStringOpt(path \o <<<<"c","o","l","o","u","r">>>>, it.colour)
  \o zStringOpt(path \o <<<<"s","i","z","e">>>>, it.size)
  \o zInt(path \o <<<<"q","u","a","n","t","i","t","y">>>>, it.quantity)
  \o zPositive(path \o <<<<"q","u","a","n","t","i","t","y">>>>, it.quantity)
  \o zNumberOpt(path \o <<<<"d","i","s","c","o","u","n","t">>>>, it.discount)
  \o zNumberOpt(path \o <<<<"t","a","x">>>>, it.tax)
  \o zString(path \o <<<<"c","u","r","r","e","n","c","y">>>>, it.currency)
zTaxLine(path, tl) ==
  zStringOpt(path \o <<<<"t","i","t","l","e">>>>, tl.title)
  \o zStringOpt(path \o <<<<"t","y","p","e">>>>, tl.type)
zPaymentDetail(path, p) ==
  zStringOpt(path \o <<<<"m","e","t","h","o","d">>>>, p.method)
  \o zStringOpt(path \o <<<<"m","a","s","k","e","d","C","a","r","d">>>>, p.maskedCard)
  \o zStringOpt(path \o <<<<"r","a","w","N","a","m","e">>>>, p.rawName)
  \o zStringOpt(path \o <<<<"t","y","p","e">>>>, p.type)
zLoyalty(path, x) ==
  zStringOpt(path \o <<<<"p","r","o","g","r","a","m">>>>, x.program)
  \o zStringOpt(path \o <<<<"m","a","s","k","e","d","I","d">>>>, x.maskedId)
\* the element schema of each array of the receipt
zElement(kind, path, x) ==
  CASE kind = "zReceiptItem" -> zReceiptItem(path, x)
    [] kind = "zTaxLine" -> zTaxLine(path, x)
    [] kind = "zPaymentDetail" -> zPaymentDetail(path, x)
    [] OTHER -> zLoyalty(path, x)
\* z.array(kind) under path: the issues of every element, under path.index
zArray(path, s, kind) ==
  Flatten([i \in 1..Len(s) |-> zElement(kind, path \o <<NatStr(i - 1)>>, s[i])])
zTotals(path, tt) ==
  zString(path \o <<<<"c","u","r","r","e","n","c","y">>>>, tt.currency)
  \o zNumberOpt(path \o <<<<"s","u","b","t","o","t","a","l">>>>, tt.subtotal)
  \o zNumberOpt(path \o <<<<"t","a","x","T","o","t","a","l">>>>, tt.taxTotal)
  \o (IF tt.discountTotal.t = "null" THEN <<>>
      ELSE zNumberOpt(path \o <<<<"d","i","s","c","o","u","n","t","T","o","t","a","l">>>>, tt.discountTotal))
  \o (IF tt.itemCount.t = "number"
      THEN zInt(path \o <<<<"i","t","e","m","C","o","u","n","t">>>>, tt.itemCount.v)
           \o zNonnegative(path \o <<<<"i","t","e","m","C","o","u","n","t">>>>, tt.itemCount.v)
      ELSE zNumberOpt(path \o <<<<"i","t","e","m","C","o","u","n","t">>>>, tt.itemCount))
  \o zInt(path \o <<<<"c","o","m","p","u","t","e","d","I","t","e","m","Q","u","a","n","t","i","t","y">>>>, tt.computedItemQuantity)
  \o zNonnegative(path \o <<<<"c","o","m","p","u","t","e","d","I","t","e","m","Q","u","a","n","t","i","t","y">>>>, tt.computedItemQuantity)
  \o zArray(path \o <<<<"t","a","x","e","s">>>>, tt.taxes, "zTaxLine")
zIdentities(path, x) ==
  zStringOpt(path \o <<<<"e","x","t","e","r","n","a","l","R","e","c","e","i","p","t","I","d">>>>, x.externalReceiptId)
  \o zStringOpt(path \o <<<<"o","r","d","e","r","N","u","m","b","e","r">>>>, x.orderNumber)
  \o zStringOpt(path \o <<<<"r","e","c","e","i","p","t","T","y","p","e">>>>, x.receiptType)
zTimestamps(path, x) ==
  zStringOpt(path \o <<<<"i","s","s","u","e","d","A","t","I","S","O">>>>, x.issuedAtISO)
  \o zStringOpt(path \o <<<<"t","i","m","e","z","o","n","e">>>>, x.timezone)
zAddress(path, x) ==
  zStringOpt(path \o <<<<"s","t","r","e","e","t">>>>, x.street)
  \o zStringOpt(path \o <<<<"s","t","r","e","e","t","2">>>>, x.street2)
  \o zStringOpt(path \o <<<<"s","u","b","u","r","b">>>>, x.suburb)
  \o zStringOpt(path \o <<<<"s","t","a","t","e">>>>, x.state)
  \o zStringOpt(path \o <<<<"p","o","s","t","c","o","d","e">>>>, x.postcode)
  \o zStringOpt(path \o <<<<"c","o","u","n","t","r","y","C","o","d","e">>>>, x.countryCode)
zMerchant(path, x) ==
  zStringOpt(path \o <<<<"m","e","r","c","h","a","n","t","N","a","m","e">>>>, x.merchantName)
  \o zStringOpt(path \o <<<<"s","t","o","r","e","N","a","m","e">>>>, x.storeName)
  \o zStringOpt(path \o <<<<"a","b","n">>>>, x.abn)
  \o zStringOpt(path \o <<<<"p","h","o","n","e">>>>, x.phone)
  \o (IF x.address.t = "undefined" THEN <<>> ELSE zAddress(path \o <<<<"a","d","d","r","e","s","s">>>>, x.address))
zReturnsPolicy(path, x) ==
  zStringOpt(path \o <<<<"b","a","r","c","o","d","e">>>>, x.barcode)
  \o zNumberOpt(path \o <<<<"p","e","r","i","o","d","D","a","y","s">>>>, x.periodDays)
  \o zStringOpt(path \o <<<<"p","o","l","i","c","y","T","e","x","t">>>>, x.policyText)

\* the issues of zReceipt.safeParse(receipt), in the order zod visits the
\* keys of the schema
zReceipt(r) ==
  zIdentities(<<<<"i","d","e","n","t","i","t","i","e","s">>>>, r.identities)
  \o zTimestamps(<<<<"t","i","m","e","s","t","a","m","p","s">>>>, r.timestamps)
  \o zMerchant(<<<<"m","e","r","c","h","a","n","t">>>>, r.merchant)
  \o zTotals(<<<<"t","o","t","a","l","s">>>>, r.totals)
  \o zArray(<<<<"i","t","e","m","s">>>>, r.items, "zReceiptItem")
  \o zArray(<<<<"a","g","g","r","e","g","a","t","e","d","I","t","e","m","s">>>>, r.aggregatedItems, "zReceiptItem")
  \o zArray(<<<<"p","a","y","m","e","n","t","s">>>>, r.payments, "zPaymentDetail")
  \o (IF r.returnsPolicy.t = "undefined" THEN <<>>
      ELSE zReturnsPolicy(<<<<"r","e","t","u","r","n","s","P","o","l","i","c","y">>>>, r.returnsPolicy))
  \o (IF r.loyaltyPrograms.t = "undefined" THEN <<>>
      ELSE zArray(<<<<"l","o","y","a","l","t","y","P","r","o","g","r","a","m","s">>>>, r.loyaltyPrograms.v, "zLoyalty"))

\* ------------------------------------------------------------------------
\* validateReceipt: schema issues, then the five integrity checks
\* ------------------------------------------------------------------------
\* round2(receipt.items.reduce((a,i)=>a+i.lineTotal,0))
sumLineTotalsOf(receipt) == round2(SumOf(receipt.items, "lineTotal"))
\* round2(receipt.payments.reduce((a,p)=>a+p.amount,0))
totalPaidOf(receipt) == round2(SumOf(receipt.payments, "amount"))
\* round2(receipt.aggregatedItems.reduce((a,i)=>a+i.lineTotal,0))
aggregatedSumOf(receipt) == round2(SumOf(receipt.aggregatedItems, "lineTotal"))

\* check 1: the issue pushed when the item line totals do not add up to
\* the total
sumLineTotalsCheck_looseTolerance(receipt) ==
  IF Abs(sumLineTotalsOf(receipt) - receipt.totals.total) > 1000
  THEN <<<<"s","u","m","(","l","i","n","e","T","o","t","a","l","s",")","=">> \o ToFixed2(sumLineTotalsOf(receipt))
         \o <<" ","!","="," ","t","o","t","a","l","=">> \o ToFixed2(receipt.totals.total)>>
  ELSE <<>>
sumLineTotalsCheck(receipt) ==
  IF ExceedsTolerance(sumLineTotalsOf(receipt), receipt.totals.total)
  THEN <<<<"s","u","m","(","l","i","n","e","T","o","t","a","l","s",")","=">> \o ToFixed2(sumLineTotalsOf(receipt))
         \o <<" ","!","="," ","t","o","t","a","l","=">> \o ToFixed2(receipt.totals.total)>>
  ELSE <<>>
\* check 2: payments against the total
totalPaidCheck(receipt) ==
  IF ExceedsTolerance(totalPaidOf(receipt), receipt.totals.total)
  THEN <<<<"t","o","t","a","l","P","a","i","d","=">> \o ToFixed2(totalPaidOf(receipt))
         \o <<" ","!","="," ","t","o","t","a","l","=">> \o ToFixed2(receipt.totals.total)>>
  ELSE <<>>
\* check 3: subtotal + taxTotal against the total, when both are present
recombinedCheck(receipt) ==
  LET subtotal == receipt.totals.subtotal
      taxTotal == receipt.totals.taxTotal
      recombined == round2(subtotal.v + taxTotal.v)
  IN IF ~IsNullish(subtotal) /\ ~IsNullish(taxTotal)
        /\ ExceedsTolerance(recombined, receipt.totals.total)
     THEN <<<<"s","u","b","t","o","t","a","l"," ","+"," ","t","a","x"," ","(">> \o ToFixed2(recombined)
            \o <<")"," ","!","="," ","t","o","t","a","l"," ","(">> \o ToFixed2(receipt.totals.total) \o <<")">>>>
     ELSE <<>>
\* check 4: itemCount against items.length, when itemCount is present
\* check 4 without the comparison: an issue whenever itemCount is present
itemCountCheck_wheneverPresent(receipt) ==
  LET itemCount == receipt.totals.itemCount
  IN IF ~IsNullish(itemCount)
     THEN <<<<"i","t","e","m","C","o","u","n","t","=">> \o NumStr(itemCount.v)
            \o <<" ","!","="," ","i","t","e","m","s",".","l","e","n","g","t","h","=">> \o NatStr(Len(receipt.items))>>
     ELSE <<>>
itemCountCheck(receipt) ==
  LET itemCount == receipt.totals.itemCount
  IN IF ~IsNullish(itemCount) /\ itemCount.v # 1000 * Len(receipt.items)
     THEN <<<<"i","t","e","m","C","o","u","n","t","=">> \o NumStr(itemCount.v)
            \o <<" ","!","="," ","i","t","e","m","s",".","l","e","n","g","t","h","=">> \o NatStr(Len(receipt.items))>>
     ELSE <<>>
\* check 5: the aggregated line totals against the item line totals
aggregatedSumCheck(receipt) ==
  IF ExceedsTolerance(aggregatedSumOf(receipt), sumLineTotalsOf(receipt))
  THEN <<<<"a","g","g","r","e","g","a","t","e","d","S","u","m","=">> \o ToFixed2(aggregatedSumOf(receipt))
         \o <<" ","!","="," ","s","u","m","L","i","n","e","T","o","t","a","l","s","=">> \o ToFixed2(sumLineTotalsOf(receipt))>>
  ELSE <<>>

\* the integrity checks stopping at the first one that fails
integrityIssues_failFast(receipt) ==
  IF sumLineTotalsCheck(receipt) # <<>> THEN sumLineTotalsCheck(receipt)
  ELSE IF totalPaidCheck(receipt) # <<>> THEN totalPaidCheck(receipt)
  ELSE IF recombinedCheck(receipt) # <<>> THEN recombinedCheck(receipt)
  ELSE IF itemCountCheck(receipt) # <<>> THEN itemCountCheck(receipt)
  ELSE aggregatedSumCheck(receipt)
\* the issues pushed by the integrity checks, in the order of the pushes
integrityIssues(receipt) ==
  sumLineTotalsCheck(receipt) \o totalPaidCheck(receipt) \o recombinedCheck(receipt)
  \o itemCountCheck(receipt) \o aggregatedSumCheck(receipt)

\* validationSuccess taken from the whole issues list
validateReceipt_successIffNoIssues(receipt) ==
  [ validationSuccess |-> zReceipt(receipt) \o integrityIssues(receipt) = <<>>,
    issues |-> zReceipt(receipt) \o integrityIssues(receipt),
    sums |-> [ sumLineTotals |-> sumLineTotalsOf(receipt),
               aggregatedSum |-> aggregatedSumOf(receipt),
               totalPaid |-> totalPaidOf(receipt), total |-> receipt.totals.total,
               subtotal |-> receipt.totals.subtotal,
               taxTotal |-> receipt.totals.taxTotal ] ]
validateReceipt(receipt) ==
  [ validationSuccess |-> zReceipt(receipt) = <<>>,
    issues |-> zReceipt(receipt) \o integrityIssues(receipt),
    sums |-> [ sumLineTotals |-> sumLineTotalsOf(receipt),
               aggregatedSum |-> aggregatedSumOf(receipt),
               totalPaid |-> totalPaidOf(receipt), total |-> receipt.totals.total,
               subtotal |-> receipt.totals.subtotal,
               taxTotal |-> receipt.totals.taxTotal ] ]

\* ------------------------------------------------------------------------
\* Redaction pass (redactReceipt, as the specification and the tests
\* describe it: receipt.ts of src/ does not hold it)
\* ------------------------------------------------------------------------
\* the fixed-length mask prefix
MaskPrefix == <<"*","*","*">>
\* the length from which a field has enough tail to mask
MinMaskLength == 5
\* the length from which a run of digits is a long one
LongDigitRun == 5

\* the digits of a string, and its last four characters
DigitsOf(s) == SelectSeq(s, IsDigit)
LastFour(s) == SubSeq(s, IF Len(s) > 4 THEN Len(s) - 3 ELSE 1, Len(s))

\* the mask keeping what follows the first four characters
maskTail_sliceFromFour(x) ==
  IF IsStr(x) /\ Len(x.v) >= MinMaskLength
  THEN Str(MaskPrefix \o SubSeq(x.v, 5, Len(x.v)))
  ELSE x
\* phone and ABN: the mask prefix followed by the last 4 digits; a short
\* field is left as it is
maskTail(x) ==
  IF IsStr(x) /\ Len(x.v) >= MinMaskLength
  THEN Str(MaskPrefix \o LastFour(DigitsOf(x.v)))
  ELSE x

\* a masked card showing more than 4 digits is brought to "**** DDDD"
correctMaskedCard(x) ==
  IF IsStr(x) /\ Len(DigitsOf(x.v)) > 4
  THEN Str(<<"*","*","*","*"," ">> \o LastFour(DigitsOf(x.v)))
  ELSE x

\* the receipt as the masking of redactReceipt leaves it
redactReceipt(r) ==
  [r EXCEPT !.merchant.phone = maskTail(r.merchant.phone),
            !.merchant.abn = maskTail(r.merchant.abn),
            !.payments = [i \in 1..Len(r.payments) |->
                            [r.payments[i] EXCEPT
                               !.maskedCard = correctMaskedCard(r.payments[i].maskedCard)]]]

\* a long run of digits in a field
HasLongDigitRun(x) ==
  /\ IsStr(x)
  /\ \E i \in 1..(Len(x.v) - LongDigitRun + 1) :
       \A j \in i..(i + LongDigitRun - 1) : IsDigit(x.v[j])
\* the test of the enforce option: a sensitive field still holds a long
\* run of digits
piiViolation(r) ==
  \/ HasLongDigitRun(r.merchant.phone)
  \/ HasLongDigitRun(r.merchant.abn)
  \/ \E i \in 1..Len(r.payments) : HasLongDigitRun(r.payments[i].maskedCard)

\* ------------------------------------------------------------------------
\* Payloads
\* ------------------------------------------------------------------------
MaxItems == 2
MaxPayments == 2
MaxElapsed == 1

\* a record without the fields whose value is undefined
Fields(f) == [k \in {x \in DOMAIN f : f[x].t # "undefined"} |-> f[k]]
\* the sequences over S of length at most n
SeqsUpTo(S, n) == UNION {[1..k -> S] : k \in 0..n}

ItemEntries ==
  { \* two lines of the same product, the second without the per-line discount
    Obj([product |-> Obj([name |-> Str(<<"A">>),
                          pricing |-> Obj([price |-> Num(290), currency_code |-> Str(<<"A","U","D">>),
                                           discount |-> Num(50)]),
                          quantity_purchased |-> Num(1000),
                          item_properties |-> Arr(<<Obj([title |-> Str(<<"S","K","U",":"," ","D","-","0","1">>)])>>)])]),
    Obj([product |-> Obj([name |-> Str(<<"A">>),
                          pricing |-> Obj([price |-> Num(290), currency_code |-> Str(<<"A","U","D">>),
                                           tax |-> Num(20)]),
                          quantity_purchased |-> Num(2000),
                          item_properties |-> Arr(<<Obj([title |-> Str(<<"S","K","U",":"," ","D","-","0","1">>)])>>)])]),
    \* a name ending in the key separator, zero quantity, no item currency
    Obj([product |-> Obj([name |-> Str(<<"A","|">>),
                          pricing |-> Obj([price |-> Num(300)]),
                          quantity_purchased |-> Num(0)])]),
    \* title instead of name, a SKU that is the key separator, no quantity
    Obj([product |-> Obj([title |-> Str(<<"A">>),
                          pricing |-> Obj([price |-> Num(300)]),
                          item_properties |-> Arr(<<Obj([title |-> Str(<<"S","K","U",":"," ","|">>)]),
                                                    Obj([bogus |-> Str(<<"i","g","n","o","r","e">>)]),
                                                    Null>>)])]),
    \* half a unit at 0.125 in another currency
    Obj([product |-> Obj([name |-> Str(<<"B">>),
                          pricing |-> Obj([price |-> Num(125), currency_code |-> Str(<<"U","S","D">>)]),
                          quantity_purchased |-> Num(500)])]),
    \* the same product with an empty SKU and a negative quantity
    Obj([product |-> Obj([name |-> Str(<<"B">>),
                          pricing |-> Obj([price |-> Num(125), currency_code |-> Str(<<"U","S","D">>)]),
                          quantity_purchased |-> Num(-5000),
                          item_properties |-> Arr(<<Obj([title |-> Str(<<"S","K","U",":">>)])>>)])]),
    \* a numeric name, price and quantity given as strings
    Obj([product |-> Obj([name |-> Num(7000),
                          pricing |-> Obj([price |-> Str(<<"0",".","3","0">>)]),
                          quantity_purchased |-> Str(<<"2">>)])]),
    \* 0.145 is stored below the tie
    Obj([product |-> Obj([name |-> Str(<<"C">>),
                          pricing |-> Obj([price |-> Num(145)]),
                          quantity_purchased |-> Num(2000)])]),
    \* malformed entries
    Null,
    Obj([product |-> Obj([name |-> Str(<<"C">>),
                          pricing |-> Obj([price |-> Num(290), currency_code |-> Str(<<"A","U">>)])])]),
    Obj([product |-> Obj([name |-> Str(<<"C">>), item_properties |-> Num(5000)])]),
    Obj([product |-> Obj([name |-> Str(<<"C">>),
                          item_properties |-> Arr(<<Obj([title |-> Num(7000)])>>)])]) }

PaymentEntries ==
  { Obj([name |-> Str(<<"V","I","S","A"," ","(","*","*","*","*"," ","1","2","3","4",")">>), amount |-> Num(590)]),
    Obj([name |-> Str(<<"V","I","S","A"," ","(","*","*","*","*","*","6","5","9",")">>), amount |-> Num(300),
         payment_method_type |-> Str(<<"V","I","S","A">>), payment_type |-> Str(<<"C","A","R","D">>)]),
    Obj([name |-> Str(<<"U","N","K","N","O","W","N","P","A","Y">>), amount |-> Num(290)]),
    Obj([name |-> Str(<<>>), amount |-> Str(<<"x">>)]),
    Obj([name |-> Str(<<"M","c"," ","P","a","y"," ","*","*","*","1","2","3","4","5">>), amount |-> Num(10),
         payment_method_type |-> Str(<<"G","o","o","g","l","e"," ","P","a","y">>)]),
    \* malformed entries
    Null,
    Obj([name |-> Num(5000), amount |-> Num(290)]),
    Obj([name |-> Str(<<"X">>), amount |-> Num(290), payment_method_type |-> Num(5000)]) }

sIso == <<"2","0","2","4","-","0","1","-","0","2","T","0","3",":","0","4",":","0","5","Z">>
sSlip == <<"M","E","R","C","H","A","N","T"," ","I","D",":"," ","1","2","3","4","5","\n","t","e","r","m","i","n","a","l"," ","i","d",":","T","9","8","7","\n","S","T","A","N",":","\n","A","U","T","H",":"," ","O","K"," ","1">>

\* payloads that vary the basket
ItemPayloads ==
  { Obj(Fields([basket_items |-> Arr(items), currency_code |-> top.ccy,
                total_price |-> top.total, item_count |-> top.cnt])) :
      items \in SeqsUpTo(ItemEntries, MaxItems),
      \* the payload-level currency is varied on payloads without total and count
      top \in { t \in [ccy : {Undef, Str(<<"U","S","D">>)},
                       total : {Undef, Num(590), Num(600), Num(870)},
                       cnt : {Undef, Num(2000)}] :
                 t.ccy = Undef \/ (t.total = Undef /\ t.cnt = Undef) } }

\* payloads that vary the payments
PaymentPayloads ==
  { Obj(Fields([basket_items |-> items, payments |-> Arr(ps), currency_code |-> ccy,
                total_price |-> total])) :
      ps \in SeqsUpTo(PaymentEntries, MaxPayments),
      items \in {Undef, Arr(<<Obj([product |-> Obj([name |-> Str(<<"B">>),
                   pricing |-> Obj([price |-> Num(590), currency_code |-> Str(<<"U","S","D">>)])])])>>)},
      ccy \in {Undef, Str(<<"A","U","D">>), Str(<<"A","U">>)},
      total \in {Num(590), Num(600)} }

\* payloads that vary the tax lines and the totals
TaxPayloads ==
  { Obj(Fields([tax_details |-> taxes, total_tax |-> tax, total_price |-> total,
                total_discount |-> disc, item_count |-> cnt])) :
      taxes \in { Undef,
                  Arr(<<Obj([title |-> Str(<<"G","S","T">>),
                             amount |-> Obj([price |-> Num(50), tax_type |-> Str(<<"G","S","T">>)])])>>),
                  Arr(<<Obj([title |-> Num(1000), amount |-> Num(50), tax_type |-> Str(<<"V","A","T">>)]),
                        Obj([amount |-> Null])>>),
                  Arr(<<Null>>),
                  EmptyObj,
                  Str(<<"G","S","T">>) },
      tax \in {Undef, Num(50), Num(145), Str(<<"0",".","0","5">>)},
      total \in {Undef, Num(590)},
      disc \in {Undef, Null, Num(2500), Str(<<"N","/","A">>), Str(<<"2",".","5">>)},
      cnt \in {Undef, Num(2500), Num(-1000)} }

\* payloads that vary everything else
MetaPayloads ==
  { Obj(Fields([issued_at |-> epoch, issued_at_iso |-> iso, loyalty |-> loy,
                raw_payment_data |-> slip, merchant_detail |-> md, external_id |-> ext])) :
      epoch \in {Undef, Num(0), Num(1000), BigNum},
      iso \in {Undef, Str(sIso), Str(<<"s","o","o","n">>)},
      loy \in { Undef,
                Arr(<<Obj([title |-> Str(<<"V","I","P">>),
                           description |-> Str(<<"T","h","a","n","k","s"," ","l","o","y","a","l","t","y"," ","i","d",":"," "," ","*","*","*","9"," ">>)]),
                      Obj([title |-> Str(<<>>), description |-> Str(<<>>)])>>),
                Arr(<<Null>>),
                Num(5000) },
      slip \in {Undef, Str(sSlip), Num(5000)},
      md \in { Undef, Null,
               Obj([phone_number |-> Str(<<"0","2","9","9","9","1","2","3","4","5">>), abn |-> Num(12000),
                    address |-> Obj([street |-> Str(<<"X">>), suburb |-> Str(<<>>),
                                     postcode |-> Num(2000)])]) },
      ext \in {Undef, Str(<<"R","1">>)} }

\* the words payment method labels are made of
LabelWords ==
  { <<"v","i","s","a">>, <<"M","a","s","t","e","r","c","a","r","d">>, <<"m","c">>, <<"a","m","e","x">>, <<"A","m","e","r","i","c","a","n"," ","E","x","p","r","e","s","s">>, <<"A","p","p","l","e"," ","P","a","y">>,
    <<"G","o","o","g","l","e"," ","P","a","y">>, <<"g"," ","p","a","y">>, <<"W","e","i","r","d","T","h","i","n","g">>, <<"x">>, <<" ">> }
MaxLabelWords == 2
\* payloads of one payment that vary the payment method label
MethodPayloads ==
  { Obj([payments |-> Arr(<<Obj([name |-> Str(<<>>), amount |-> Num(290),
                                 payment_method_type |-> Str(Flatten(ws))])>>),
         total_price |-> Num(290)]) :
      ws \in SeqsUpTo(LabelWords, MaxLabelWords) }

\* payloads that cannot be serialized: no payload at all, and BigInt values
HashPayloads ==
  { Undef,
    Obj([total_price |-> BigInt(590)]),
    Obj([basket_items |-> Arr(<<Obj([product |-> Obj([name |-> Str(<<"A">>),
                                                      pricing |-> Obj([price |-> Num(290)]),
                                                      quantity_purchased |-> BigInt(2)])])>>),
         total_price |-> Num(290)]) }

\* payloads that vary the merchant's phone number and ABN
RedactPayloads ==
  { Obj(Fields([merchant_detail |-> Obj(Fields([phone_number |-> phone, abn |-> abn])),
                payments |-> Arr(<<Obj([name |-> Str(<<"V","I","S","A"," ","(","*","*","*","*","*","6","5","9",")">>), amount |-> Num(590)])>>),
                total_price |-> Num(590)])) :
      phone \in {Str(<<"0","2","9","9","9","1","2","3","4","5">>), Str(<<"0","2","9","9","9","1","2","3","4","5","6","7","8","9","0">>), Str(<<"1","2","3","4">>)},
      abn \in {Undef, Str(<<"1","2"," ","9","9","9"," ","8","8","8"," ","7","7","7">>), Str(<<"1","2","3","4">>)} }

\* the payloads a call is made with without a schemaVersion option, apart
\* from the item payloads
OtherPayloads ==
  PaymentPayloads \cup TaxPayloads \cup MethodPayloads \cup HashPayloads
    \cup RedactPayloads \cup {Null}

\* ------------------------------------------------------------------------
\* The caller: one payload is transformed, possibly transformed a second
\* time, possibly altered by the caller, and validated
\* ------------------------------------------------------------------------
VARIABLES raw, schemaVersion, now, pc, receipt, receipt2, tampered, report

\* the batch run: the payload each URL of the batch file serves (undefined
\* when no API response is obtained), the --strict flag, the queue's shared
\* counters idx and processed, the results array, each worker's position,
\* and the Map built by the latest transformReceipt invocation
VARIABLES urls, strict, idx, processed, results, worker, aggregatedMap

\* the --concurrency option (in milli), where main stands, the number of
\* processSingle calls made for each URL, the browser launched for each URL,
\* the files of the output directory, the manifest as written, and the
\* status the process has exited with
VARIABLES concurrency, main, calls, browser, files, manifest, exitStatus

runVars == <<concurrency, main, calls, browser, files, manifest, exitStatus>>

\* a call of retry, the helper processSingle navigates with: its parameters
\* attempts and baseDelayMs, the loop index i, lastErr, where the call
\* stands, the invocations of fn and the timers set so far in order, and
\* what the call has settled with
VARIABLES attempts, baseDelayMs, retryI, lastErr, retryPc, trace, settled

retryVars == <<attempts, baseDelayMs, retryI, lastErr, retryPc, trace, settled>>
batchVars == <<urls, strict, idx, processed, results, worker, aggregatedMap, runVars,
               retryVars>>

\* the redaction pass: the receipt as the first redactReceipt call left it,
\* and the enforce option of the latest call
VARIABLES redactedOnce, enforce

redactVars == <<redactedOnce, enforce>>
vars == <<raw, schemaVersion, now, pc, receipt, receipt2, tampered, report, batchVars,
          redactVars>>

NoReceipt == [t |-> "undefined"]
NoReport == [t |-> "undefined"]

\* no manifest written yet; the process still running
NoManifest == [t |-> "undefined"]
NoStatus == [t |-> "undefined"]
\* the process has ended with the status code
Exited(code) == [code |-> code]

\* single mode: no batch file, no worker
NoOutcome == [t |-> "pending"]

\* no retry call is under way
NoRetry ==
  /\ attempts = 0
  /\ baseDelayMs = 0
  /\ retryI = 0
  /\ lastErr = Undef
  /\ retryPc = "idle"
  /\ trace = <<>>
  /\ settled = NoOutcome

NoBatch ==
  /\ urls = <<>>
  /\ strict = FALSE
  /\ idx = 0
  /\ processed = 0
  /\ results = <<>>
  /\ worker = <<>>
  /\ aggregatedMap = <<>>
  /\ concurrency = 1000
  /\ main = "single"
  /\ calls = <<>>
  /\ browser = <<>>
  /\ files = {}
  /\ manifest = NoManifest
  /\ exitStatus = NoStatus

Init ==
  /\ \/ \E payload \in ItemPayloads : raw = payload /\ schemaVersion = Undef
     \/ \E payload \in OtherPayloads : raw = payload /\ schemaVersion = Undef
     \/ \E payload \in MetaPayloads, option \in {Undef, Str(<<"2",".","0",".","0">>)} :
          raw = payload /\ schemaVersion = option
  /\ now = 0
  /\ pc = "ready"
  /\ receipt = NoReceipt
  /\ receipt2 = NoReceipt
  /\ tampered = FALSE
  /\ report = NoReport
  /\ redactedOnce = NoReceipt
  /\ enforce = FALSE
  /\ NoBatch
  /\ NoRetry

\* const receipt = transformReceipt(apiReceiptData, { schemaVersion })
Transform ==
  /\ pc = "ready"
  /\ IF transformThrows(raw)
     THEN /\ pc' = "threw"
          /\ UNCHANGED receipt
     ELSE /\ pc' = "transformed"
          /\ receipt' = transformReceipt(raw, schemaVersion, now)
  /\ UNCHANGED <<raw, schemaVersion, now, receipt2, tampered, report, batchVars, redactVars>>

\* a second call with the same payload and option, some time later
TransformAgain ==
  /\ pc = "transformed"
  /\ ~tampered
  /\ \E dt \in 0..MaxElapsed :
       /\ now' = now + dt
       /\ receipt2' = transformReceipt(raw, schemaVersion, now')
  /\ pc' = "compared"
  /\ UNCHANGED <<raw, schemaVersion, receipt, tampered, report, batchVars, redactVars>>

\* the caller alters the receipt it holds before validating it:
\* receipt.aggregatedItems[0].lineTotal += d
TamperAggregated ==
  /\ pc = "transformed" /\ ~tampered
  /\ receipt.aggregatedItems # <<>>
  /\ \E d \in {10, 20} :
       receipt' = [receipt EXCEPT !.aggregatedItems[1].lineTotal = @ + d]
  /\ tampered' = TRUE
  /\ UNCHANGED <<raw, schemaVersion, now, pc, receipt2, report, batchVars, redactVars>>

\* receipt.totals.itemCount = receipt.items.length + 5
TamperItemCount ==
  /\ pc = "transformed" /\ ~tampered
  /\ receipt' = [receipt EXCEPT !.totals.itemCount = Num(1000 * (Len(receipt.items) + 5))]
  /\ tampered' = TRUE
  /\ UNCHANGED <<raw, schemaVersion, now, pc, receipt2, report, batchVars, redactVars>>

\* receipt.totals.subtotal += d
TamperSubtotal ==
  /\ pc = "transformed" /\ ~tampered
  /\ ~IsNullish(receipt.totals.subtotal)
  /\ \E d \in {10, 30} :
       receipt' = [receipt EXCEPT !.totals.subtotal = Num(@.v + d)]
  /\ tampered' = TRUE
  /\ UNCHANGED <<raw, schemaVersion, now, pc, receipt2, report, batchVars, redactVars>>

\* receipt.items[0].quantity = -5
TamperQuantity ==
  /\ pc = "transformed" /\ ~tampered
  /\ receipt.items # <<>>
  /\ receipt' = [receipt EXCEPT !.items[1].quantity = -5000]
  /\ tampered' = TRUE
  /\ UNCHANGED <<raw, schemaVersion, now, pc, receipt2, report, batchVars, redactVars>>

\* receipt.totals.total = receipt.totals.total + 0.05; receipt.items[0].lineTotal += 0.01
TamperTotal ==
  /\ pc = "transformed" /\ ~tampered
  /\ receipt.items # <<>>
  /\ receipt' = [receipt EXCEPT !.totals.total = @ + 50, !.items[1].lineTotal = @ + 10]
  /\ tampered' = TRUE
  /\ UNCHANGED <<raw, schemaVersion, now, pc, receipt2, report, batchVars, redactVars>>

\* validateReceipt writing the number of items back into totals.itemCount
Validate_repairsItemCount ==
  /\ pc = "transformed"
  /\ report' = validateReceipt(receipt)
  /\ receipt' = [receipt EXCEPT !.totals.itemCount = Num(1000 * Len(receipt.items))]
  /\ pc' = "validated"
  /\ UNCHANGED <<raw, schemaVersion, now, receipt2, tampered, batchVars, redactVars>>
\* const validation = validateReceipt(receipt)
Validate ==
  /\ pc = "transformed"
  /\ report' = validateReceipt(receipt)
  /\ pc' = "validated"
  /\ UNCHANGED <<raw, schemaVersion, now, receipt, receipt2, tampered, batchVars, redactVars>>

\* the caller over-exposes a masked card before redacting:
\* receipt.payments[0].maskedCard = '**** 123456'
ExposeMaskedCard ==
  /\ pc = "transformed" /\ ~tampered
  /\ receipt.payments # <<>>
  /\ receipt' = [receipt EXCEPT !.payments[1].maskedCard = Str(<<"*","*","*","*"," ","1","2","3","4","5","6">>)]
  /\ tampered' = TRUE
  /\ pc' = "exposed"
  /\ UNCHANGED <<raw, schemaVersion, now, receipt2, report, batchVars, redactVars>>

\* redactReceipt(receipt, { enforce }): the fields are masked in place, then
\* with enforce a remaining long run of digits raises the PII violation
Redact ==
  /\ \/ pc = "transformed" /\ ~tampered
     \/ pc = "exposed"
  /\ receipt' = redactReceipt(receipt)
  /\ redactedOnce' = receipt'
  /\ enforce' \in BOOLEAN
  /\ pc' = IF enforce' /\ piiViolation(receipt') THEN "piiViolation" ELSE "redacted"
  /\ UNCHANGED <<raw, schemaVersion, now, receipt2, tampered, report, batchVars>>

\* a second redactReceipt call on the same receipt
RedactAgain ==
  /\ pc = "redacted"
  /\ receipt' = redactReceipt(receipt)
  /\ enforce' \in BOOLEAN
  /\ pc' = IF enforce' /\ piiViolation(receipt') THEN "piiViolationAgain" ELSE "redactedTwice"
  /\ UNCHANGED <<raw, schemaVersion, now, receipt2, tampered, report, batchVars, redactedOnce>>

Next ==
  \/ Transform
  \/ TransformAgain
  \/ TamperAggregated
  \/ TamperItemCount
  \/ TamperSubtotal
  \/ TamperQuantity
  \/ TamperTotal
  \/ Validate
  \/ ExposeMaskedCard
  \/ Redact
  \/ RedactAgain

Spec == Init /\ [][Next]_vars
\* ------------------------------------------------------------------------
\* Batch mode: main with a batch file, the for loop and the work queue
\* ------------------------------------------------------------------------
MaxUrls == 3
MaxConcurrency == 2

\* a basket entry of product A at 0.29
LineA(quantity) ==
  Obj([product |-> Obj([name |-> Str(<<"A">>), pricing |-> Obj([price |-> Num(290)]),
                        quantity_purchased |-> Num(quantity)])])
\* what the URLs of a batch serve: no API response, two lines of one
\* product, a payload transformReceipt throws on
BatchPayloads ==
  { Undef,
    Obj([basket_items |-> Arr(<<LineA(1000), LineA(2000)>>), total_price |-> Num(870)]),
    Obj([basket_items |-> Arr(<<Null>>)]) }

\* a slot of the results array that no worker has filled
NoResult == [t |-> "undefined"]

\* const aggregatedMap = new Map(), with the entries of the Map of the
\* latest invocation still in it
newAggregatedMap_keptAcrossCalls == aggregatedMap
\* const aggregatedMap = new Map(): the Map an invocation starts from
newAggregatedMap == <<>>

\* the number of workers: Array.from({ length: Math.min(concurrency,
\* urls.length) }) truncates the length to an integer; with a concurrency
\* of 1 the one worker is the for loop of main
workerCount(c, n) == Min(c, 1000 * n) \div 1000

\* results[k - 1] = r on an array that may be shorter: the slots in between
\* stay empty
SetAt(arr, k, r) ==
  [j \in 1..(IF k > Len(arr) THEN k ELSE Len(arr)) |->
     IF j = k THEN r ELSE IF j <= Len(arr) THEN arr[j] ELSE NoResult]

\* the slots of results that hold a result with the given ok
ResultsWith(arr, ok) == {j \in 1..Len(arr) : arr[j] # NoResult /\ arr[j].ok = ok}

\* main in batch mode, up to the first await of the workers: concurrency is
\* any number above 0 that --concurrency gives (1 when absent); each worker
\* has taken its index and runs to the first await inside processSingle,
\* the launch of its browser
BatchInit ==
  /\ raw = Undef
  /\ schemaVersion = Str(SCHEMA_VERSION)
  /\ now = 0
  /\ pc = "batch"
  /\ receipt = NoReceipt
  /\ receipt2 = NoReceipt
  /\ tampered = FALSE
  /\ report = NoReport
  /\ redactedOnce = NoReceipt
  /\ enforce = FALSE
  /\ urls \in SeqsUpTo(BatchPayloads, MaxUrls) \ {<<>>}
  /\ strict \in BOOLEAN
  /\ concurrency \in {500} \cup {1000 * c : c \in 1..MaxConcurrency}
  /\ worker = [w \in 1..workerCount(concurrency, Len(urls)) |->
                 [pc |-> "fetching", my |-> w - 1, receipt |-> NoReceipt,
                  result |-> NoResult]]
  /\ idx = IF concurrency = 1000 THEN 0 ELSE workerCount(concurrency, Len(urls))
  /\ processed = 0
  /\ results = <<>>
  /\ aggregatedMap = <<>>
  /\ main = "running"
  /\ calls = [k \in 1..Len(urls) |->
                IF k <= workerCount(concurrency, Len(urls)) THEN 1 ELSE 0]
  /\ browser = [k \in 1..Len(urls) |->
                  IF k <= workerCount(concurrency, Len(urls)) THEN "open" ELSE "none"]
  /\ files = {}
  /\ manifest = NoManifest
  /\ exitStatus = NoStatus
  /\ NoRetry

\* processSingle from the launch of the browser to the wait for the page's
\* API response; without a response the call goes on to close the browser
\* and return { ok: false }, with one to write the raw file
ResponseArrives(w) ==
  /\ main = "running"
  /\ worker[w].pc = "fetching"
  /\ IF ~Truthy(urls[worker[w].my + 1])
     THEN worker' = [worker EXCEPT ![w].pc = "closing",
                                   ![w].result = [ok |-> FALSE, reason |-> "no_api_response"]]
     ELSE worker' = [worker EXCEPT ![w].pc = "writingRaw"]
  /\ UNCHANGED <<raw, schemaVersion, now, pc, receipt, receipt2, tampered, report,
                 redactVars, retryVars>>
  /\ UNCHANGED <<urls, strict, idx, processed, results, aggregatedMap, runVars>>

\* processSingle from the return of the raw file's write to its next await:
\* transformReceipt and validateReceipt run without suspending, then the
\* strict test; the clock has moved on since the previous call.  An
\* exception of transformReceipt rejects processSingle, the worker, the
\* Promise.all and main: the process ends with status 1
TransformAndValidate(w) ==
  /\ main = "running"
  /\ worker[w].pc = "writingRaw"
  /\ now' = now + 1
  /\ files' = files \cup {<<"raw", worker[w].my + 1>>}
  /\ IF transformThrows(urls[worker[w].my + 1])
     THEN /\ worker' = [worker EXCEPT ![w].pc = "rejected"]
          /\ main' = "crashed"
          /\ exitStatus' = Exited(1)
          /\ UNCHANGED aggregatedMap
     ELSE \E map \in {AggFold(newAggregatedMap, itemsOf(urls[worker[w].my + 1]))} :
          \E made \in {[transformReceipt(urls[worker[w].my + 1], Str(SCHEMA_VERSION), now + 1)
                          EXCEPT !.aggregatedItems = [i \in 1..Len(map) |-> map[i].item]]} :
          \E validation \in {validateReceipt(made)} :
            /\ aggregatedMap' = map
            /\ UNCHANGED <<main, exitStatus>>
            /\ IF strict /\ (~validation.validationSuccess \/ Len(validation.issues) # 0)
               THEN worker' = [worker EXCEPT
                      ![w].pc = "closing",
                      ![w].receipt = made,
                      ![w].result = [ok |-> FALSE, reason |-> "validation_failed",
                                     issues |-> validation.issues]]
               ELSE worker' = [worker EXCEPT
                      ![w].pc = "persisting",
                      ![w].receipt = made,
                      ![w].result = [ok |-> TRUE, total |-> made.totals.total,
                                     items |-> Len(made.items)]]
  /\ UNCHANGED <<raw, schemaVersion, pc, receipt, receipt2, tampered, report,
                 redactVars, retryVars>>
  /\ UNCHANGED <<urls, strict, idx, processed, results, concurrency, calls, browser, manifest>>

\* the writes of the clean and the validation file: fs.writeFile either
\* writes them or rejects, and nothing catches the rejection
Persist(w) ==
  /\ main = "running"
  /\ worker[w].pc = "persisting"
  /\ \E written \in BOOLEAN :
       IF written
       THEN /\ files' = files \cup {<<"clean", worker[w].my + 1>>,
                                    <<"validation", worker[w].my + 1>>}
            /\ worker' = [worker EXCEPT ![w].pc = "closing"]
            /\ UNCHANGED <<main, exitStatus>>
       ELSE /\ worker' = [worker EXCEPT ![w].pc = "writeFailed"]
            /\ main' = "crashed"
            /\ exitStatus' = Exited(1)
            /\ UNCHANGED files
  /\ UNCHANGED <<raw, schemaVersion, now, pc, receipt, receipt2, tampered, report,
                 redactVars, retryVars>>
  /\ UNCHANGED <<urls, strict, idx, processed, results, aggregatedMap, concurrency, calls, browser,
                 manifest>>

\* await browser.close() returns, processSingle returns and the loop goes on
\* without suspending.  In a worker: results[my] = r; processed++; my =
\* idx++; in the for loop of main: results.push(r); i++.  Then a new
\* processSingle call, up to the launch of its browser, or the end of the
\* loop
ReturnAndTakeNext(w) ==
  /\ main = "running"
  /\ worker[w].pc = "closing"
  /\ \E next \in {IF concurrency = 1000 THEN worker[w].my + 1 ELSE idx} :
       /\ worker' = [worker EXCEPT ![w].my = next,
                                   ![w].pc = IF next >= Len(urls) THEN "done" ELSE "fetching",
                                   ![w].receipt = NoReceipt,
                                   ![w].result = NoResult]
       /\ calls' = [k \in 1..Len(urls) |-> IF k = next + 1 THEN calls[k] + 1 ELSE calls[k]]
       /\ browser' = [k \in 1..Len(urls) |->
                        IF k = worker[w].my + 1 THEN "closed"
                        ELSE IF k = next + 1 THEN "open" ELSE browser[k]]
  /\ IF concurrency = 1000
     THEN /\ results' = Append(results, worker[w].result)
          /\ UNCHANGED <<idx, processed>>
     ELSE /\ results' = SetAt(results, worker[w].my + 1, worker[w].result)
          /\ processed' = processed + 1
          /\ idx' = idx + 1
  /\ UNCHANGED <<raw, schemaVersion, now, pc, receipt, receipt2, tampered, report,
                 redactVars, retryVars>>
  /\ UNCHANGED <<urls, strict, aggregatedMap, concurrency, main, files, manifest, exitStatus>>

\* the loop, or every worker, has finished: await writeJsonSchema(OUT_DIR)
WriteSchema ==
  /\ main = "running"
  /\ \A w \in DOMAIN worker : worker[w].pc = "done"
  /\ files' = files \cup {<<"schema", 0>>}
  /\ main' = "schemaWritten"
  /\ UNCHANGED <<raw, schemaVersion, now, pc, receipt, receipt2, tampered, report,
                 redactVars, retryVars>>
  /\ UNCHANGED <<urls, strict, idx, processed, results, worker, aggregatedMap, concurrency,
                 calls, browser, manifest, exitStatus>>

\* the manifest is built from results and written
WriteManifest ==
  /\ main = "schemaWritten"
  /\ manifest' = [count |-> Len(results),
                  ok |-> Cardinality(ResultsWith(results, TRUE)),
                  failed |-> Cardinality(ResultsWith(results, FALSE)),
                  results |-> results]
  /\ files' = files \cup {<<"manifest", 0>>}
  /\ main' = "manifestWritten"
  /\ UNCHANGED <<raw, schemaVersion, now, pc, receipt, receipt2, tampered, report,
                 redactVars, retryVars>>
  /\ UNCHANGED <<urls, strict, idx, processed, results, worker, aggregatedMap, concurrency,
                 calls, browser, exitStatus>>

\* if (cli.strict && manifest.failed) process.exit(2); return
Exit ==
  /\ main = "manifestWritten"
  /\ exitStatus' = IF strict /\ manifest.failed # 0 THEN Exited(2) ELSE Exited(0)
  /\ main' = "exited"
  /\ UNCHANGED <<raw, schemaVersion, now, pc, receipt, receipt2, tampered, report,
                 redactVars, retryVars>>
  /\ UNCHANGED <<urls, strict, idx, processed, results, worker, aggregatedMap, concurrency,
                 calls, browser, files, manifest>>

BatchNext ==
  \/ \E w \in DOMAIN worker : ResponseArrives(w)
  \/ \E w \in DOMAIN worker : TransformAndValidate(w)
  \/ \E w \in DOMAIN worker : Persist(w)
  \/ \E w \in DOMAIN worker : ReturnAndTakeNext(w)
  \/ WriteSchema
  \/ WriteManifest
  \/ Exit

BatchSpec == BatchInit /\ [][BatchNext]_vars

\* ------------------------------------------------------------------------
\* The retry helper: retry(fn, attempts, baseDelayMs)
\* ------------------------------------------------------------------------
MaxAttempts == 3

\* what an invocation of fn settles with: page.goto resolves with a response,
\* whatever its status, or rejects with an error
FnValues == {[t |-> "response", status |-> status] : status \in {200, 404}}
FnErrors == {[t |-> "error", message |-> message] :
               message \in {"TimeoutError", "net::ERR_CONNECTION_REFUSED", "net::ERR_ABORTED"}}

\* a timer after every failed attempt, the last one included
shouldWait_always(i, n) == TRUE

\* if (i < attempts - 1) await new Promise(r => setTimeout(r, ...))
shouldWait(i, n) == i < n - 1

\* baseDelayMs * Math.pow(2, i)
delayMs(base, i) == base * 2^i

Invoked(i) == [ev |-> "invoke", i |-> i]
Rejected(i, e) == [ev |-> "rejected", i |-> i, error |-> e]
Resolved(i, v) == [ev |-> "resolved", i |-> i, value |-> v]
Waited(i, ms) == [ev |-> "wait", i |-> i, ms |-> ms]

\* the call up to its first await: i = 0, the loop's test, and fn invoked
\* when the test passes; with no attempt to make, throw lastErr at once
RetryInit ==
  /\ raw = Undef
  /\ schemaVersion = Str(SCHEMA_VERSION)
  /\ now = 0
  /\ pc = "retry"
  /\ receipt = NoReceipt
  /\ receipt2 = NoReceipt
  /\ tampered = FALSE
  /\ report = NoReport
  /\ redactedOnce = NoReceipt
  /\ enforce = FALSE
  /\ NoBatch
  /\ attempts \in 0..MaxAttempts
  /\ baseDelayMs \in {250, 500}
  /\ retryI = 0
  /\ lastErr = Undef
  /\ IF 0 < attempts
     THEN retryPc = "awaitingFn" /\ trace = <<Invoked(0)>> /\ settled = NoOutcome
     ELSE retryPc = "threw" /\ trace = <<>> /\ settled = [thrown |-> Undef]

\* i++ and the loop's test, with the events so far and the error caught
\* last: the next invocation of fn, or throw lastErr after the loop
NextAttempt(i, events, err) ==
  /\ retryI' = i
  /\ IF i < attempts
     THEN retryPc' = "awaitingFn" /\ trace' = Append(events, Invoked(i))
          /\ settled' = settled
     ELSE retryPc' = "threw" /\ trace' = events /\ settled' = [thrown |-> err]

\* fn resolves: return await fn()
FnResolves ==
  /\ retryPc = "awaitingFn"
  /\ \E v \in FnValues :
       /\ trace' = Append(trace, Resolved(retryI, v))
       /\ settled' = [returned |-> v]
  /\ retryPc' = "returned"
  /\ UNCHANGED <<raw, schemaVersion, now, pc, receipt, receipt2, tampered, report, redactVars>>
  /\ UNCHANGED <<urls, strict, idx, processed, results, worker, aggregatedMap, runVars>>
  /\ UNCHANGED <<attempts, baseDelayMs, retryI, lastErr>>

\* fn rejects: the catch block keeps the error and either sets the timer or
\* goes on to the next turn of the loop without suspending
FnRejects ==
  /\ retryPc = "awaitingFn"
  /\ \E e \in FnErrors :
       /\ lastErr' = e
       /\ IF shouldWait(retryI, attempts)
          THEN /\ retryPc' = "sleeping"
               /\ trace' = trace \o <<Rejected(retryI, e),
                                      Waited(retryI, delayMs(baseDelayMs, retryI))>>
               /\ UNCHANGED <<retryI, settled>>
          ELSE NextAttempt(retryI + 1, Append(trace, Rejected(retryI, e)), e)
  /\ UNCHANGED <<raw, schemaVersion, now, pc, receipt, receipt2, tampered, report, redactVars>>
  /\ UNCHANGED <<urls, strict, idx, processed, results, worker, aggregatedMap, runVars>>
  /\ UNCHANGED <<attempts, baseDelayMs>>

\* the timer fires: the loop goes on
TimerFires ==
  /\ retryPc = "sleeping"
  /\ NextAttempt(retryI + 1, trace, lastErr)
  /\ UNCHANGED <<raw, schemaVersion, now, pc, receipt, receipt2, tampered, report, redactVars>>
  /\ UNCHANGED <<urls, strict, idx, processed, results, worker, aggregatedMap, runVars>>
  /\ UNCHANGED <<attempts, baseDelayMs, lastErr>>

RetryNext ==
  \/ FnResolves
  \/ FnRejects
  \/ TimerFires

RetrySpec == RetryInit /\ [][RetryNext]_vars

\* ------------------------------------------------------------------------
\* Properties
\* ------------------------------------------------------------------------
\* the receipt held is the one transformReceipt returned
Returned == receipt # NoReceipt /\ ~tampered /\ redactedOnce = NoReceipt

\* some issue of the report contains the text
Reports(text) == \E k \in 1..Len(report.issues) : Includes(report.issues[k], text)

\* C1: transformReceipt never throws for malformed or missing fields:
\* whatever the payload, the call returns a receipt.
C1_NeverThrows == pc # "threw"

\* C2: every item of every receipt returned by transformReceipt has
\* quantity >= 1.
C2_QuantityAtLeastOne ==
  Returned => \A i \in 1..Len(receipt.items) : receipt.items[i].quantity >= 1000

\* C3: a payment whose raw name is "VISA (**** 1234)" gets method "VISA"
\* and maskedCard "**** *1234".
C3_SpacedDescriptorIsMasked ==
  Returned =>
    \A i \in 1..Len(receipt.payments) :
      receipt.payments[i].rawName = Str(<<"V","I","S","A"," ","(","*","*","*","*"," ","1","2","3","4",")">>) =>
        /\ receipt.payments[i].method = Str(sVISA)
        /\ receipt.payments[i].maskedCard = Str(<<"*","*","*","*"," ","*","1","2","3","4">>)

\* the identity tuple of an item
IdentityTuple(it) ==
  <<it.name, it.sku, it.apn, it.colour, it.size, it.unitPrice, it.currency>>

\* C4: aggregatedItems holds exactly one entry per distinct identity tuple
\* (name, sku, apn, colour, size, unitPrice, currency) of items: items are
\* merged if and only if their tuples are equal.
C4_OneEntryPerIdentityTuple ==
  Returned =>
    Len(receipt.aggregatedItems)
      = Cardinality({IdentityTuple(receipt.items[i]) : i \in 1..Len(receipt.items)})

C7_FormattedInReceiptCurrency ==
  Returned =>
    LET cur == ToUpperCase(receipt.totals.currency.v)
        In(f) == f.t = "undefined" \/ f.cur = cur
    IN /\ \A i \in 1..Len(receipt.items) :
            In(receipt.items[i].unitPriceFormatted) /\ In(receipt.items[i].lineTotalFormatted)
       /\ \A i \in 1..Len(receipt.aggregatedItems) :
            In(receipt.aggregatedItems[i].lineTotalFormatted)
       /\ \A i \in 1..Len(receipt.totals.taxes) : In(receipt.totals.taxes[i].amountFormatted)
       /\ \A i \in 1..Len(receipt.payments) : In(receipt.payments[i].amountFormatted)
       /\ In(receipt.totals.totalFormatted)
       /\ In(receipt.totals.subtotalFormatted)
       /\ In(receipt.totals.taxTotalFormatted)
       /\ In(receipt.paymentSummary.totalPaidFormatted)

\* whether integrity check k of a receipt fails
CheckFails(r, k) ==
  CASE k = 1 -> ExceedsTolerance(round2(SumOf(r.items, "lineTotal")), r.totals.total)
    [] k = 2 -> ExceedsTolerance(round2(SumOf(r.payments, "amount")), r.totals.total)
    [] k = 3 -> /\ ~IsNullish(r.totals.subtotal) /\ ~IsNullish(r.totals.taxTotal)
                /\ ExceedsTolerance(round2(r.totals.subtotal.v + r.totals.taxTotal.v),
                                    r.totals.total)
    [] k = 4 -> /\ ~IsNullish(r.totals.itemCount)
                /\ r.totals.itemCount.v # 1000 * Len(r.items)
    [] OTHER -> ExceedsTolerance(round2(SumOf(r.aggregatedItems, "lineTotal")),
                                 round2(SumOf(r.items, "lineTotal")))
\* the text that opens the issue of integrity check k
CheckLabel(k) ==
  CASE k = 1 -> <<"s","u","m","(","l","i","n","e","T","o","t","a","l","s",")","=">>
    [] k = 2 -> <<"t","o","t","a","l","P","a","i","d","=">>
    [] k = 3 -> <<"s","u","b","t","o","t","a","l"," ","+"," ","t","a","x"," ","(">>
    [] k = 4 -> <<"i","t","e","m","C","o","u","n","t","=">>
    [] OTHER -> <<"a","g","g","r","e","g","a","t","e","d","S","u","m","=">>
FailingChecks(r) == SelectSeq(<<1, 2, 3, 4, 5>>, LAMBDA k : CheckFails(r, k))

\* C8: validateReceipt runs all five integrity checks on every call: the
\* issues list is the schema issues followed by exactly one issue per
\* failing check, in the order of the checks.
C8_AllChecksAccumulate ==
  pc = "validated" =>
    LET s == zReceipt(receipt)
        failing == FailingChecks(receipt)
    IN /\ Len(report.issues) = Len(s) + Len(failing)
       /\ SubSeq(report.issues, 1, Len(s)) = s
       /\ \A j \in 1..Len(failing) :
            SubSeq(report.issues[Len(s) + j], 1, Len(CheckLabel(failing[j])))
              = CheckLabel(failing[j])
\* a validation with schema issues and at least three failing checks
C8_Witness ==
  /\ pc = "validated"
  /\ zReceipt(receipt) # <<>>
  /\ Len(FailingChecks(receipt)) >= 3
  /\ Len(report.issues) = Len(zReceipt(receipt)) + Len(FailingChecks(receipt))

\* C9: validationSuccess reflects schema conformance only: a receipt that
\* satisfies the schema but whose payments do not add up to the total is
\* reported with validationSuccess true and a "totalPaid" issue; a receipt
\* with an item quantity that is not positive is reported with
\* validationSuccess false and an issue naming that item's quantity path.
C9_SuccessIsSchemaOnly ==
  pc = "validated" =>
    /\ report.validationSuccess <=> (zReceipt(receipt) = <<>>)
    /\ (zReceipt(receipt) = <<>> /\ CheckFails(receipt, 2)) =>
         (report.validationSuccess /\ report.issues # <<>> /\ Reports(<<"t","o","t","a","l","P","a","i","d">>))
    /\ \A i \in 1..Len(receipt.items) :
         receipt.items[i].quantity <= 0 =>
           /\ ~report.validationSuccess
           /\ Reports(<<"i","t","e","m","s",".">> \o NatStr(i - 1) \o <<".","q","u","a","n","t","i","t","y">>)
\* a schema-conformant receipt reported successful together with a
\* "totalPaid" issue
C9_Witness ==
  /\ pc = "validated"
  /\ report.validationSuccess
  /\ receipt.payments # <<>>
  /\ Reports(<<"t","o","t","a","l","P","a","i","d">>)

MethodClasses ==
  << [patterns |-> {<<"V","I","S","A">>}, method |-> <<"V","I","S","A">>],
     [patterns |-> {<<"M","A","S","T","E","R","C","A","R","D">>, <<"M","C">>}, method |-> <<"M","A","S","T","E","R","C","A","R","D">>],
     [patterns |-> {<<"A","M","E","X">>, <<"A","M","E","R","I","C","A","N"," ","E","X","P","R","E","S","S">>}, method |-> <<"A","M","E","X">>],
     [patterns |-> {<<"A","P","P","L","E"," ","P","A","Y">>}, method |-> <<"A","P","P","L","E","_","P","A","Y">>],
     [patterns |-> {<<"G","O","O","G","L","E"," ","P","A","Y">>, <<"G"," ","P","A","Y">>}, method |-> <<"G","O","O","G","L","E","_","P","A","Y">>] >>
\* the classes a label matches
ClassesOf(label) ==
  {k \in 1..5 : \E p \in MethodClasses[k].patterns : Includes(ToUpperCase(label), p)}
\* the i-th payment of the payload
RawPayment(i) == Get(raw, "payments").v[i]

\* C11: the payment method is the class of the earliest pattern, in the
\* order VISA, MASTERCARD/MC, AMEX/AMERICAN EXPRESS, APPLE PAY, GOOGLE PAY/
\* G PAY, that the uppercased label contains; a label matching none is
\* returned uppercased ("WeirdThing" gives "WEIRDTHING"), an empty label
\* gives undefined.
C11_MethodPriority ==
  Returned =>
    \A i \in 1..Len(receipt.payments) :
      LET label == Get(RawPayment(i), "payment_method_type")
          method == receipt.payments[i].method
      IN /\ (IsStr(label) /\ label.v # <<>>) =>
              IF ClassesOf(label.v) # {}
              THEN \E k \in ClassesOf(label.v) :
                     /\ \A j \in ClassesOf(label.v) : k <= j
                     /\ method = Str(MethodClasses[k].method)
              ELSE method = Str(ToUpperCase(label.v))
         /\ label = Str(<<"W","e","i","r","d","T","h","i","n","g">>) => method = Str(<<"W","E","I","R","D","T","H","I","N","G">>)
         /\ (~Truthy(label) /\ receipt.payments[i].rawName = Str(<<>>)) => method = Undef
\* a label containing both "MC" and "AMEX", classified MASTERCARD
C11_Witness ==
  /\ Returned
  /\ \E i \in 1..Len(receipt.payments) :
       /\ IsStr(Get(RawPayment(i), "payment_method_type"))
       /\ {2, 3} \subseteq ClassesOf(Get(RawPayment(i), "payment_method_type").v)
       /\ 1 \notin ClassesOf(Get(RawPayment(i), "payment_method_type").v)
       /\ receipt.payments[i].method = Str(<<"M","A","S","T","E","R","C","A","R","D">>)

\* the i-th basket entry of the payload
RawItem(i) == Get(raw, "basket_items").v[i]
\* the pricing object of a basket entry
RawPricing(entry) == Or(Get(Or(Get(entry, "product"), EmptyObj), "pricing"), EmptyObj)

C13_ItemCurrencyPriority ==
  Returned =>
    \A i \in 1..Len(receipt.items) :
      LET itemCode == Get(RawPricing(RawItem(i)), "currency_code")
          payloadCode == Get(raw, "currency_code")
          currency == receipt.items[i].currency
      IN /\ IsStr(currency) /\ currency.v # <<>>
         /\ Truthy(itemCode) => currency = itemCode
         /\ (~Truthy(itemCode) /\ Truthy(payloadCode)) => currency = payloadCode
         /\ (~Truthy(itemCode) /\ ~Truthy(payloadCode)) => currency = Str(<<"A","U","D">>)
\* a receipt with an item that keeps its own code against the payload's and
\* an item without a code that takes the payload's
C13_Witness ==
  /\ Returned
  /\ Truthy(Get(raw, "currency_code"))
  /\ \E i \in 1..Len(receipt.items) :
       /\ Truthy(Get(RawPricing(RawItem(i)), "currency_code"))
       /\ Get(RawPricing(RawItem(i)), "currency_code") # Get(raw, "currency_code")
       /\ receipt.items[i].currency = Get(RawPricing(RawItem(i)), "currency_code")
  /\ \E i \in 1..Len(receipt.items) :
       /\ ~Truthy(Get(RawPricing(RawItem(i)), "currency_code"))
       /\ receipt.items[i].currency = Get(raw, "currency_code")

\* C14: when the upstream total_tax is a number, totals.taxTotal is present
\* and totals.subtotal is total minus taxTotal, a whole number of cents;
\* otherwise taxTotal and subtotal are both absent.
C14_SubtotalIffTaxTotal ==
  Returned =>
    IF IsNum(Get(raw, "total_tax"))
    THEN /\ IsNum(receipt.totals.taxTotal)
         /\ IsNum(receipt.totals.subtotal)
         /\ receipt.totals.subtotal.v % 10 = 0
         /\ receipt.totals.subtotal.v = receipt.totals.total - receipt.totals.taxTotal.v
    ELSE /\ receipt.totals.taxTotal = Undef
         /\ receipt.totals.subtotal = Undef
\* a total of 0.59 with a tax total of 0.05 gives a subtotal of 0.54
C14_Witness ==
  /\ Returned
  /\ Get(raw, "total_tax") = Num(50)
  /\ receipt.totals.total = 590
  /\ receipt.totals.subtotal = Num(540)

\* C15: totals.discountTotal is never absent: it is the number the upstream
\* total_discount coerces to (2.5 and "2.5" give 2.5) and null when the
\* field is missing or does not coerce to a finite number ("N/A").
C15_DiscountTotal ==
  Returned =>
    LET discountAny == Get(raw, "total_discount")
        discountTotal == receipt.totals.discountTotal
    IN /\ discountTotal # Undef
       /\ discountTotal = Null \/ IsNum(discountTotal)
       /\ IsNullish(discountAny) => discountTotal = Null
       /\ IsNum(discountAny) => discountTotal = discountAny
       /\ discountAny = Str(<<"2",".","5">>) => discountTotal = Num(2500)
       /\ discountAny = Str(<<"N","/","A">>) => discountTotal = Null
\* the string "2.5" coerced to the number 2.5
C15_Witness ==
  /\ Returned
  /\ Get(raw, "total_discount") = Str(<<"2",".","5">>)
  /\ receipt.totals.discountTotal = Num(2500)

\* C16: a payload that cannot be serialized (undefined, or holding a
\* BigInt) does not make transformReceipt throw: the receipt is returned
\* with meta.rawHash undefined; for every other payload rawHash is the
\* digest string of the payload.
C16_HashFailureIsAbsorbed ==
  /\ (pc = "threw") => ~(raw = Undef \/ HasBigInt(raw))
  /\ Returned =>
       IF raw = Undef \/ HasBigInt(raw)
       THEN receipt.meta.rawHash = Undef
       ELSE receipt.meta.rawHash = [t |-> "string", sha256 |-> raw]
\* a receipt returned for a payload holding a BigInt
C16_Witness ==
  /\ Returned
  /\ HasBigInt(raw)
  /\ Len(receipt.items) = 1
  /\ receipt.meta.rawHash = Undef

\* the workers that hold the receipt their transformReceipt call returned
Holding == {w \in DOMAIN worker : worker[w].receipt # NoReceipt}

MaskedCards(r) == [i \in 1..Len(r.payments) |-> r.payments[i].maskedCard]

Raised == pc \in {"threw", "piiViolation", "piiViolationAgain"}

\* C19: redactReceipt with enforce raises the PII violation exactly when a
\* sensitive field still holds a long run of digits after masking, it
\* raises nothing without enforce, and no other call of the transform /
\* validate / redact pipeline raises an error.
C19_OnlyPiiViolationIsRaised ==
  /\ pc \in {"piiViolation", "piiViolationAgain"} => enforce /\ piiViolation(receipt)
  /\ (pc \in {"redacted", "redactedTwice"} /\ enforce) => ~piiViolation(receipt)
  /\ Raised => pc \in {"piiViolation", "piiViolationAgain"}

\* C20: validateReceipt leaves the receipt it is given as it is, whether or
\* not it reports issues, a further transformReceipt call leaves the first
\* receipt as it is, and no call changes the raw payload; only the
\* redaction pass (and the caller's own writes) change a receipt.
C20_OnlyRedactionMutates ==
  [][/\ raw' = raw
     /\ pc' \in {"validated", "compared"} => receipt' = receipt
     /\ (receipt # NoReceipt /\ receipt' # receipt) =>
          \/ pc' \in {"redacted", "redactedTwice", "piiViolation", "piiViolationAgain"}
          \/ tampered']_vars
\* a receipt validated with issues reported, still the receipt
\* transformReceipt returned for the payload
C20_Witness ==
  /\ pc = "validated"
  /\ ~tampered
  /\ report.issues # <<>>
  /\ raw # Null /\ raw # Undef
  /\ receipt.items # <<>>
  /\ [receipt EXCEPT !.meta.fetchedAtISO = 0] = transformReceipt(raw, schemaVersion, 0)

\* the issues of the report that contain the text
ReportsOf(text) == {k \in 1..Len(report.issues) : Includes(report.issues[k], text)}
\* totals.itemCount as transformReceipt sets it for the payload
ItemCountIsUpstreamOrLength ==
  Returned =>
    receipt.totals.itemCount
      = IF IsNum(Get(raw, "item_count")) THEN Get(raw, "item_count")
        ELSE Num(1000 * Len(receipt.items))
\* validating the receipt of a payload without a numeric item_count
\* reports nothing about itemCount
NoCountNoIssue ==
  (pc = "validated" /\ ~tampered /\ ~IsNum(Get(raw, "item_count")))
    => ReportsOf(<<"i","t","e","m","C","o","u","n","t">>) = {}

\* C21 as stated: totals.itemCount is the upstream item_count when that is
\* a number and items.length otherwise; without a numeric item_count
\* validateReceipt reports no "itemCount" issue, and a receipt whose
\* itemCount differs from items.length yields exactly one issue containing
\* "itemCount".
C21_ItemCountIssue ==
  /\ ItemCountIsUpstreamOrLength
  /\ NoCountNoIssue
  /\ (pc = "validated" /\ receipt.totals.itemCount # Num(1000 * Len(receipt.items)))
       => Cardinality(ReportsOf(<<"i","t","e","m","C","o","u","n","t">>)) = 1

\* C21 amended: as above, but a receipt whose itemCount differs from
\* items.length yields exactly one integrity issue "itemCount=... !=
\* items.length=...", and besides it one schema issue on totals.itemCount
\* when the count is not an integer and one when it is negative.
C21_ItemCountIssue_Amended ==
  /\ ItemCountIsUpstreamOrLength
  /\ NoCountNoIssue
  /\ (pc = "validated" /\ receipt.totals.itemCount # Num(1000 * Len(receipt.items))) =>
       LET count == receipt.totals.itemCount.v
       IN /\ Cardinality(ReportsOf(<<"i","t","e","m","C","o","u","n","t","=">>)) = 1
          /\ Cardinality(ReportsOf(<<"t","o","t","a","l","s",".","i","t","e","m","C","o","u","n","t"," ","-"," ">>))
               = (IF count % 1000 # 0 THEN 1 ELSE 0) + (IF count < 0 THEN 1 ELSE 0)
          /\ ReportsOf(<<"i","t","e","m","C","o","u","n","t">>)
               = ReportsOf(<<"i","t","e","m","C","o","u","n","t","=">>) \cup ReportsOf(<<"t","o","t","a","l","s",".","i","t","e","m","C","o","u","n","t"," ","-"," ">>)
\* an upstream item_count of 2.5 on a payload without items: the integrity
\* issue and the schema issue both name itemCount
C21_Witness ==
  /\ pc = "validated" /\ ~tampered
  /\ Get(raw, "item_count") = Num(2500)
  /\ receipt.totals.itemCount = Num(2500)
  /\ Cardinality(ReportsOf(<<"i","t","e","m","C","o","u","n","t","=">>)) = 1
  /\ Cardinality(ReportsOf(<<"i","t","e","m","C","o","u","n","t">>)) = 2

\* C22: the integrity checks on money amounts (checks 1, 2, 3 and 5) report
\* an issue if and only if the two compared amounts, each rounded to 2
\* decimals, are more than 0.01 apart: a difference of exactly one cent is
\* not reported, a difference of two cents is.
C22_ToleranceIsOneCent ==
  pc = "validated" =>
    LET total == receipt.totals.total
        sumLineTotals == round2(SumOf(receipt.items, "lineTotal"))
        totalPaid == round2(SumOf(receipt.payments, "amount"))
        aggregatedSum == round2(SumOf(receipt.aggregatedItems, "lineTotal"))
    IN /\ Reports(<<"s","u","m","(","l","i","n","e","T","o","t","a","l","s",")","=">>) <=> Abs(sumLineTotals - total) > 10
       /\ Reports(<<"t","o","t","a","l","P","a","i","d","=">>) <=> Abs(totalPaid - total) > 10
       /\ (~IsNullish(receipt.totals.subtotal) /\ ~IsNullish(receipt.totals.taxTotal)) =>
            (Reports(<<"s","u","b","t","o","t","a","l"," ","+"," ","t","a","x"," ","(">>)
               <=> Abs(round2(receipt.totals.subtotal.v + receipt.totals.taxTotal.v) - total) > 10)
       /\ Reports(<<"a","g","g","r","e","g","a","t","e","d","S","u","m","=">>) <=> Abs(aggregatedSum - sumLineTotals) > 10

\* the items of the receipt that have the identity key, in order
ItemsWithKey(key) == SelectSeq(receipt.items, LAMBDA it : AggKey(it) = key)
\* the line totals of a non-empty sequence of items added one by one, the
\* sum rounded to 2 decimals after each addition
RECURSIVE RunningLineTotal(_)
RunningLineTotal(s) ==
  IF Len(s) = 1 THEN s[1].lineTotal
  ELSE round2(RunningLineTotal(SubSeq(s, 1, Len(s) - 1)) + s[Len(s)].lineTotal)

C25_AggregatedEntryInvariant ==
  Returned =>
    /\ \A j \in 1..Len(receipt.aggregatedItems) :
         LET entry == receipt.aggregatedItems[j]
         IN entry.lineTotal = round2(Mul(entry.unitPrice, entry.quantity))
    /\ SumOf(receipt.aggregatedItems, "quantity") = receipt.totals.computedItemQuantity
    /\ receipt.totals.computedItemQuantity = SumOf(receipt.items, "quantity")

\* the result processSingle returns for the k-th URL of the batch
ResultFor(k) ==
  IF ~Truthy(urls[k]) THEN [ok |-> FALSE, reason |-> "no_api_response"]
  ELSE LET made == transformReceipt(urls[k], Str(SCHEMA_VERSION), 0)
           validation == validateReceipt(made)
       IN IF strict /\ (~validation.validationSuccess \/ validation.issues # <<>>)
          THEN [ok |-> FALSE, reason |-> "validation_failed", issues |-> validation.issues]
          ELSE [ok |-> TRUE, total |-> made.totals.total, items |-> Len(made.items)]
\* the URLs whose processSingle call has started and not completed
InFlight == {k \in 1..Len(urls) : calls[k] > 0 /\ browser[k] = "open"
                                  /\ \A w \in DOMAIN worker :
                                       worker[w].my + 1 = k =>
                                         worker[w].pc \notin {"rejected", "writeFailed"}}

\* C26: in batch mode with a concurrency above 1 the queue hands each URL
\* index to exactly one worker: no URL is processed twice, once the run is
\* over every URL has been processed, each result is stored at its URL's
\* own position in results, and at most min(concurrency, number of URLs)
\* receipts are in flight at any time.
C26_EachUrlExactlyOnce ==
  (pc = "batch" /\ concurrency > 1000) =>
    /\ \A k \in 1..Len(urls) : calls[k] <= 1
    /\ exitStatus # NoStatus =>
         \A k \in 1..Len(urls) :
           calls[k] = 1 /\ k <= Len(results) /\ results[k] # NoResult
    /\ \A k \in 1..Len(results) : results[k] # NoResult => results[k] = ResultFor(k)
    /\ 1000 * Cardinality(InFlight) <= Min(concurrency, 1000 * Len(urls))

\* C27: in batch mode the schema file and the manifest are written only
\* after every worker has finished, and a manifest that is written holds
\* exactly one result per URL, for the for loop as for the work queue:
\* count is the number of URLs, ok + failed is count, and the URLs without
\* an API response or failing strict validation are the ones counted as
\* failed, the URLs after them being processed all the same.
C27_ManifestHoldsEveryUrl ==
  pc = "batch" =>
    /\ (<<"schema", 0>> \in files \/ <<"manifest", 0>> \in files) =>
         \A w \in DOMAIN worker : worker[w].pc = "done"
    /\ manifest # NoManifest =>
         /\ manifest.count = Len(urls)
         /\ manifest.ok + manifest.failed = manifest.count
         /\ manifest.failed = Cardinality({k \in 1..Len(urls) : ~ResultFor(k).ok})

\* the processSingle calls that have completed: the ones whose result main or
\* a worker has stored, and the ones that ended by raising
Completed ==
  {k \in 1..Len(urls) :
     \/ k <= Len(results) /\ results[k] # NoResult
     \/ \E w \in DOMAIN worker : /\ worker[w].my + 1 = k
                                 /\ worker[w].pc \in {"rejected", "writeFailed"}}

\* C28: every browser launched by processSingle is closed by the time the
\* call completes, on every path: success, no API response, strict
\* validation failure, and an error raised by the transform or by the
\* writing of the clean and validation files.
C28_BrowserClosedOnCompletion ==
  pc = "batch" => \A k \in Completed : browser[k] = "closed"

\* the receipt of URL k fails the strict test of processSingle: its
\* validation is unsuccessful or lists an issue
FailsStrictTest(k) ==
  LET validation == validateReceipt(transformReceipt(urls[k], Str(SCHEMA_VERSION), 0))
  IN ~validation.validationSuccess \/ validation.issues # <<>>

\* C30: in strict mode a receipt whose validation is unsuccessful or lists
\* an issue is never persisted: no clean and no validation file is ever
\* written for it and its call returns ok: false with reason
\* validation_failed; without strict mode a returned call that obtained a
\* response has written both files whatever the issues; and a batch run
\* exits with status 2 exactly when strict mode is on and at least one
\* result is not ok.
C30_StrictNeverPersists ==
  pc = "batch" =>
    /\ \A k \in 1..Len(urls) :
         (Truthy(urls[k]) /\ ~transformThrows(urls[k])) =>
           /\ (strict /\ FailsStrictTest(k)) =>
                <<"clean", k>> \notin files /\ <<"validation", k>> \notin files
           /\ (k <= Len(results) /\ results[k] # NoResult) =>
                IF strict /\ FailsStrictTest(k)
                THEN ~results[k].ok /\ results[k].reason = "validation_failed"
                ELSE /\ results[k].ok
                     /\ <<"clean", k>> \in files /\ <<"validation", k>> \in files
    /\ exitStatus # NoStatus =>
         (exitStatus = Exited(2) <=>
            (strict /\ \E k \in 1..Len(results) : results[k] # NoResult /\ ~results[k].ok))

\* the positions of the events of one kind in the trace of the retry call
EventsOf(kind) == {j \in 1..Len(trace) : trace[j].ev = kind}

\* C29: retry(fn, attempts, baseDelayMs) invokes fn at most attempts times;
\* it returns the value of the first invocation that succeeds and invokes
\* fn no more; when every attempt fails it throws the error of the last
\* attempt; after failed attempt i that is not the last it waits
\* baseDelayMs * 2^i before the next invocation, and after the last failed
\* attempt it does not wait.
C29_RetryContract ==
  pc = "retry" =>
    /\ Cardinality(EventsOf("invoke")) <= attempts
    /\ \A j \in EventsOf("resolved") :
         /\ j = Len(trace)
         /\ settled = [returned |-> trace[j].value]
         /\ EventsOf("resolved") = {j}
    /\ (retryPc = "returned") = (EventsOf("resolved") # {})
    /\ (retryPc = "threw" /\ attempts > 0) =>
         /\ Cardinality(EventsOf("invoke")) = attempts
         /\ Cardinality(EventsOf("rejected")) = attempts
         /\ trace[Len(trace)].ev = "rejected"
         /\ settled = [thrown |-> trace[Len(trace)].error]
    /\ \A j \in EventsOf("rejected") :
         IF trace[j].i < attempts - 1
         THEN /\ j < Len(trace)
              /\ trace[j + 1] = Waited(trace[j].i, baseDelayMs * 2^(trace[j].i))
              /\ j + 1 < Len(trace) => trace[j + 2] = Invoked(trace[j].i + 1)
         ELSE j = Len(trace)
    /\ \A j \in EventsOf("wait") : j > 1 /\ trace[j - 1].ev = "rejected"
    /\ \A j \in EventsOf("invoke") :
         /\ trace[j].i = Cardinality({k \in EventsOf("invoke") : k < j})
         /\ j > 1 => trace[j - 1].ev = "wait"

\* two attempts, as processSingle asks for, both failing: one wait of
\* baseDelayMs, between the two, and the second error thrown
C29_Witness ==
  /\ pc = "retry"
  /\ attempts = 2 /\ baseDelayMs = 500
  /\ retryPc = "threw"
  /\ Len(trace) = 5
  /\ trace[3] = Waited(0, 500)
  /\ trace[2].error # trace[5].error
  /\ settled = [thrown |-> trace[5].error]

====
